---------------------------- MODULE Spec2Model ----------------------------
(***************************************************************************)
(* Board legality model of sigsolve (src/sigsolve/board.py) and of its     *)
(* backtracking solver (src/sigsolve/solver.py).                           *)
(*                                                                         *)
(* A tile is identified by its number (Tile.number); the sentinel          *)
(* DummyTile is Dummy.  Python's None / True / False stored in Tile._legal *)
(* are the strings "None" / "True" / "False"; an element is a string and   *)
(* the absent element (None) is NoElement.                                 *)
(***************************************************************************)
EXTENDS Integers, Sequences, FiniteSets, TLC

VARIABLES
    radius,     \* geometry.radius of the board under construction / in use
    pc,         \* position in Board.__init__: "tiles", "adjacency", "ready"
    by,         \* loop variable y of the running loop of Board.__init__
    bx,         \* loop variable x of the running loop of Board.__init__
    number,     \* Board.__init__'s counter: the number of the next Tile
    rows,       \* Board.rows: rows[Y][X] is a tile number or Dummy
    neighbors,  \* Tile.neighbors: neighbors[t] is the 6-slot list of tile t
    bit,        \* TileBase.bit of every tile created
    element,    \* TileBase._element of every tile created
    exists_,    \* TileBase._exists of every tile created
    _legal,     \* Tile._legal of every tile created (tri-state cache)
    catalog,    \* Board.catalog: element -> set of tiles (only the keys present)
    raised,     \* the exception the last operation ended with, or NoError
    played,     \* the tiles the board's user populates and queries
    CARDINALS,  \* Board.CARDINALS in its iteration order (a Python set's order)
    solver,     \* the Solver object: stack, solution, won, bitmaps, counters
    steps,      \* the local steps of the running Solver.solve call
    calls       \* the Solver.solve calls made so far: budget and return value

geomVars == <<radius, pc, by, bx, number, rows, neighbors, bit>>
tileVars == <<element, exists_, _legal, catalog>>
solverVars == <<CARDINALS, solver, steps, calls>>
vars == <<radius, pc, by, bx, number, rows, neighbors, bit,
          element, exists_, _legal, catalog, raised, played,
          CARDINALS, solver, steps, calls>>

-----------------------------------------------------------------------------
(* Bounds of the model.                                                    *)

\* SpecBuild constructs boards of every radius 1..MaxRadius.
MaxRadius == 4
\* The board the tile operations run on has this radius (the program: 6).
BoardRadius == 2
\* The QueryPredict action passes sets of at most this many removed tiles.
MaxRemoved == 1
\* The boards drawn from a palette for the solver hold at most this many tiles.
MaxTiles == 4
\* The budgets of the solve(steps) calls on one Solver add up to at most this.
MaxSteps == 4
\* The palette boards on which solve(steps) is called again and again hold
\* at most this many tiles.
MaxResumeTiles == 3

-----------------------------------------------------------------------------
(* Values.                                                                 *)

Dummy == -1
NoElement == "none"
NoError == "none"
\* _setexists: raise AttributeError('Cannot make a tile with no element existant')
NoElementError == "AttributeError: Cannot make a tile with no element existant"
\* catalog[old].discard(tile) on the tuple a missing key yields
NoDiscardError == "AttributeError: 'tuple' object has no attribute 'discard'"
LegalNone == "None"
LegalTrue == "True"
LegalFalse == "False"
MINADJACENT == 3

\* Python's bool stored into / compared with the tri-state _legal.
TriOf(value) == IF value THEN LegalTrue ELSE LegalFalse

Abs(n) == IF n < 0 THEN -n ELSE n

(* Python integers used as bit masks are unbounded (a radius-6 board has 91  *)
(* tiles).  A mask is kept as the set of the positions of its 1 bits, which  *)
(* is exact for every non-negative integer: 0 is {}, 1 << n is {n}, a | b is *)
(* the union, a & ~b the difference, and "if mask:" asks for a 1 bit.        *)
Shl1(n) == {n}
BitOr(a, b) == a \cup b
BitAndNot(a, b) == a \ b
BitSet(mask, i) == i \in mask

\* Board.METALS, a tuple; Board.CARDINALS, a set, here in sorted order
METALS == <<"mercury", "tin", "iron", "copper", "silver", "gold">>
Cardinals == <<"air", "earth", "fire", "water">>

\* solve(steps=None): the budget None
StepsNone == -1

\* Solver.__init__: stack None, no solution, won None, no visited bitmaps.
\* "stack is None" is the flag stack_is_none, stack the list otherwise.
NewSolver ==
    [stack_is_none |-> TRUE, stack |-> << >>, solution |-> << >>, won |-> "None",
     bitmaps |-> {}, bitmap_hits |-> 0, iterations |-> 0]

\* no Solver.solve call has been made
NoSolver ==
    /\ CARDINALS = Cardinals
    /\ solver = NewSolver
    /\ steps = StepsNone
    /\ calls = << >>

-----------------------------------------------------------------------------
(* Board.__init__: the grid.                                               *)

Diameter(r) == 2 * r - 1

\* count = diameter - abs(geometry.radius - (y+1))
RowCount(r, y) == Diameter(r) - Abs(r - (y + 1))

\* start = (diameter - count) // 2
RowStart(r, y) == (Diameter(r) - RowCount(r, y)) \div 2

\* blank_row = list(itertools.repeat(self.dummy, diameter + 2))
BlankRow(r) == [X \in 0 .. Diameter(r) + 1 |-> Dummy]

\* list.append on a list kept as a function over 0 .. len-1
Len0(list) == Cardinality(DOMAIN list)
Append0(list, item) ==
    [i \in 0 .. Len0(list) |-> IF i < Len0(list) THEN list[i] ELSE item]

\* altrow = -((y+1)%2), y the index into self.rows
AltRow(Y) == -((Y + 1) % 2)

\* Adjacency with the row below indexed as if it were not offset
AdjacencyNoAlt(grid, Y, X) ==
    LET altrow == AltRow(Y)
        row == grid[Y]
        above == grid[Y - 1]
        below == grid[Y + 1]
    IN  << row[X - 1],
           above[X + altrow],
           above[X + altrow + 1],
           row[X + 1],
           below[X + 1],
           below[X] >>

\* tile.neighbors = [...]: starting from the left and going clockwise
Adjacency(grid, Y, X) ==
    LET altrow == AltRow(Y)
        row == grid[Y]
        above == grid[Y - 1]
        below == grid[Y + 1]
    IN  << row[X - 1],
           above[X + altrow],
           above[X + altrow + 1],
           row[X + 1],
           below[X + altrow + 1],
           below[X + altrow] >>

(* The finished board in closed form: what the loops of Board.__init__     *)
(* leave behind for radius r.                                              *)

RECURSIVE FirstNumber(_, _)
FirstNumber(r, y) == IF y = 0 THEN 0 ELSE FirstNumber(r, y - 1) + RowCount(r, y - 1)

TileCount(r) == FirstNumber(r, Diameter(r))

BuiltCell(r, Y, X) ==
    IF Y = 0 \/ Y = Diameter(r) + 1 THEN Dummy
    ELSE LET y == Y - 1
             x == X - 1
         IN  IF x >= RowStart(r, y) /\ x < RowStart(r, y) + RowCount(r, y)
             THEN FirstNumber(r, y) + (x - RowStart(r, y))
             ELSE Dummy

BuiltRows(r) ==
    [Y \in 0 .. Diameter(r) + 1 |-> [X \in 0 .. Diameter(r) + 1 |-> BuiltCell(r, Y, X)]]

BuiltNeighbors(r) ==
    LET grid == BuiltRows(r)
        place(t) == CHOOSE p \in (1 .. Diameter(r)) \X (1 .. Diameter(r)) :
                        grid[p[1]][p[2]] = t
    IN  [t \in 0 .. TileCount(r) - 1 |-> Adjacency(grid, place(t)[1], place(t)[2])]

-----------------------------------------------------------------------------
(* Board.__init__ as a process: one step per loop iteration.               *)

InitBuild ==
    /\ radius \in 1 .. MaxRadius
    /\ pc = "tiles"
    /\ by = 0
    /\ bx = -1                       \* no row started
    /\ number = 0
    /\ rows = Append0(<< >>, BlankRow(radius))
    /\ neighbors = << >>
    /\ bit = << >>
    /\ element = << >>
    /\ exists_ = << >>
    /\ _legal = << >>
    /\ catalog = << >>
    /\ raised = NoError
    /\ played = {}
    /\ NoSolver

\* for y in range(0, diameter): row = list(blank_row); self.rows.append(row)
StartRow ==
    /\ pc = "tiles" /\ by < Diameter(radius) /\ bx = -1
    /\ rows' = Append0(rows, BlankRow(radius))
    /\ bx' = RowStart(radius, by)
    /\ UNCHANGED <<radius, pc, by, number, neighbors, bit, tileVars, raised, played, solverVars>>

\* t = Tile(x-hoffset, y, parent=self, number=number); number += 1;
\* self.tiles.append(t); row[x+1] = t
PlaceTile ==
    /\ pc = "tiles" /\ by < Diameter(radius) /\ bx >= 0
    /\ bx < RowStart(radius, by) + RowCount(radius, by)
    /\ rows' = [rows EXCEPT ![by + 1][bx + 1] = number]
    /\ bit' = Append0(bit, Shl1(number))
    /\ element' = Append0(element, NoElement)
    /\ exists_' = Append0(exists_, FALSE)
    /\ _legal' = Append0(_legal, LegalNone)
    /\ neighbors' = Append0(neighbors, << >>)
    /\ number' = number + 1
    /\ bx' = bx + 1
    /\ UNCHANGED <<radius, pc, by, catalog, raised, played, solverVars>>

\* the inner range is exhausted: next y
EndRow ==
    /\ pc = "tiles" /\ by < Diameter(radius) /\ bx >= 0
    /\ bx = RowStart(radius, by) + RowCount(radius, by)
    /\ by' = by + 1
    /\ bx' = -1
    /\ UNCHANGED <<radius, pc, number, rows, neighbors, bit, tileVars, raised, played, solverVars>>

\* self.rows.append(blank_row), then the adjacency loop starts
EndPadding ==
    /\ pc = "tiles" /\ by >= Diameter(radius) /\ bx = -1
    /\ rows' = Append0(rows, BlankRow(radius))
    /\ pc' = "adjacency"
    /\ by' = 0
    /\ bx' = 0
    /\ UNCHANGED <<radius, number, neighbors, bit, tileVars, raised, played, solverVars>>

\* if y == 0 or y > diameter: continue
SkipRow ==
    /\ pc = "adjacency" /\ by < Len0(rows)
    /\ (by = 0 \/ by > Diameter(radius))
    /\ by' = by + 1
    /\ bx' = 0
    /\ UNCHANGED <<radius, pc, number, rows, neighbors, bit, tileVars, raised, played, solverVars>>

AdvanceCell ==
    IF bx + 1 < Len0(rows[by])
    THEN bx' = bx + 1 /\ by' = by
    ELSE bx' = 0 /\ by' = by + 1

\* if tile is self.dummy: continue
SkipDummy ==
    /\ pc = "adjacency" /\ by < Len0(rows)
    /\ ~(by = 0 \/ by > Diameter(radius))
    /\ rows[by][bx] = Dummy
    /\ AdvanceCell
    /\ UNCHANGED <<radius, pc, number, rows, neighbors, bit, tileVars, raised, played, solverVars>>

\* tile.neighbors = [row[x-1], above[x+altrow], ...]
LinkTile ==
    /\ pc = "adjacency" /\ by < Len0(rows)
    /\ ~(by = 0 \/ by > Diameter(radius))
    /\ rows[by][bx] # Dummy
    /\ neighbors' = [neighbors EXCEPT ![rows[by][bx]] = Adjacency(rows, by, bx)]
    /\ AdvanceCell
    /\ UNCHANGED <<radius, pc, number, rows, bit, tileVars, raised, played, solverVars>>

\* the adjacency loop is exhausted: __init__ returns
FinishBuild ==
    /\ pc = "adjacency" /\ by = Len0(rows)
    /\ pc' = "ready"
    /\ UNCHANGED <<radius, by, bx, number, rows, neighbors, bit, tileVars, raised, played,
                   solverVars>>

NextBuild ==
    \/ StartRow
    \/ PlaceTile
    \/ EndRow
    \/ EndPadding
    \/ SkipRow
    \/ SkipDummy
    \/ LinkTile
    \/ FinishBuild

SpecBuild == InitBuild /\ [][NextBuild]_vars

(* SpecBuildAny: Board.__init__ on a Geometry of any radius.  Neither     *)
(* Geometry.__init__ nor Board.__init__ looks at the sign of the radius:   *)
(* with a radius below 1 range(0, diameter) is empty and the adjacency     *)
(* loop skips both padding rows.                                           *)

InitBuildAny ==
    /\ radius \in -1 .. MaxRadius
    /\ pc = "tiles"
    /\ by = 0
    /\ bx = -1
    /\ number = 0
    /\ rows = Append0(<< >>, BlankRow(radius))
    /\ neighbors = << >>
    /\ bit = << >>
    /\ element = << >>
    /\ exists_ = << >>
    /\ _legal = << >>
    /\ catalog = << >>
    /\ raised = NoError
    /\ played = {}
    /\ NoSolver

SpecBuildAny == InitBuildAny /\ [][NextBuild]_vars

\* The state Board.__init__ returns in, for a board of radius r.
BuiltBoard(r) ==
    /\ radius = r
    /\ pc = "ready"
    /\ by = Diameter(r) + 2
    /\ bx = 0
    /\ number = TileCount(r)
    /\ rows = BuiltRows(r)
    /\ neighbors = BuiltNeighbors(r)
    /\ bit = [t \in 0 .. TileCount(r) - 1 |-> Shl1(t)]

\* TileBase.__init__ / Tile.__init__ and Board.__init__: no element, not
\* existing, legality unknown, empty catalog
FreshTiles(r) ==
    /\ element = [t \in 0 .. TileCount(r) - 1 |-> NoElement]
    /\ exists_ = [t \in 0 .. TileCount(r) - 1 |-> FALSE]
    /\ _legal = [t \in 0 .. TileCount(r) - 1 |-> LegalNone]
    /\ catalog = << >>

\* The closed form is what the construction process ends with.
BuildMatchesClosedForm ==
    pc = "ready" => BuiltBoard(radius) /\ FreshTiles(radius)

-----------------------------------------------------------------------------
(* The tiles of a board, as one value: what the tile operations read and   *)
(* write.                                                                  *)

Board == [element |-> element, exists |-> exists_, legal |-> _legal, catalog |-> catalog]

Tiles == DOMAIN element

\* the sentinel DummyTile never has an element and never exists
ElementOf(b, n) == IF n = Dummy THEN NoElement ELSE b.element[n]
ExistsOf(b, n) == IF n = Dummy THEN FALSE ELSE b.exists[n]

\* TileBase.real_neighbors: the neighbors that have an element
real_neighbors(b, t) ==
    {neighbors[t][i] : i \in {j \in 1 .. 6 : ElementOf(b, neighbors[t][j]) # NoElement}}

\* CatalogDictionary.__missing__: a missing key reads as the empty tuple
CatalogGet(cat, key) == IF key \in DOMAIN cat THEN cat[key] ELSE {}

\* self.catalog.setdefault(key, set()).add(tile)
CatalogAdd(cat, key, t) ==
    [k \in DOMAIN cat \cup {key} |-> IF k = key THEN CatalogGet(cat, key) \cup {t} ELSE cat[k]]

\* self.catalog[key].discard(tile), key present
CatalogDiscard(cat, key, t) == [cat EXCEPT ![key] = @ \ {t}]

\* expire_legality that forgets nothing
expire_never(cur, onlyif) == cur

\* Tile.expire_legality: the new cached value of a tile whose cache is cur
expire_legality(cur, onlyif) ==
    IF onlyif # LegalNone /\ cur # onlyif THEN cur ELSE LegalNone

\* tile_element_changed that leaves the tile in its old element's set
tile_element_changed_nodiscard(b, t, old, new) ==
    IF old = new THEN [raised |-> NoError, catalog |-> b.catalog]
    ELSE [raised |-> NoError,
          catalog |-> IF new # NoElement /\ b.exists[t]
                      THEN CatalogAdd(b.catalog, new, t)
                      ELSE b.catalog]

\* Board.tile_element_changed, called with tile t's element already new
tile_element_changed(b, t, old, new) ==
    IF old = new THEN [raised |-> NoError, catalog |-> b.catalog]
    ELSE IF old # NoElement /\ old \notin DOMAIN b.catalog
    THEN [raised |-> NoDiscardError, catalog |-> b.catalog]
    ELSE LET discarded == IF old # NoElement
                          THEN CatalogDiscard(b.catalog, old, t)
                          ELSE b.catalog
         IN  [raised |-> NoError,
              catalog |-> IF new # NoElement /\ b.exists[t]
                          THEN CatalogAdd(discarded, new, t)
                          ELSE discarded]

\* tile_exists_changed that expires the cached legality of every tile
tile_exists_changed_expire_all(b, t, old, new) ==
    IF old = new THEN b
    ELSE LET e == b.element[t]
             cat == IF e # NoElement
                    THEN IF new THEN CatalogAdd(b.catalog, e, t)
                         ELSE IF e \in DOMAIN b.catalog
                              THEN CatalogDiscard(b.catalog, e, t)
                              ELSE b.catalog
                    ELSE b.catalog
         IN  [b EXCEPT !.catalog = cat,
                       !.legal = [n \in DOMAIN b.legal |->
                                    expire_legality(b.legal[n], TriOf(new))]]

\* Board.tile_exists_changed, called with tile t's existence already new
tile_exists_changed(b, t, old, new) ==
    IF old = new THEN b
    ELSE LET e == b.element[t]
             cat == IF e # NoElement
                    THEN IF new THEN CatalogAdd(b.catalog, e, t)
                         ELSE IF e \in DOMAIN b.catalog
                              THEN CatalogDiscard(b.catalog, e, t)
                              ELSE b.catalog
                    ELSE b.catalog
             expired == real_neighbors(b, t)
         IN  [b EXCEPT !.catalog = cat,
                       !.legal = [n \in DOMAIN b.legal |->
                                    IF n \in expired
                                    THEN expire_legality(b.legal[n], TriOf(new))
                                    ELSE b.legal[n]]]

\* _setexists that ignores the request to make an element-less tile exist
_setexists_silent(b, t, value) ==
    LET old == b.exists[t]
    IN  IF value = old \/ (value /\ b.element[t] = NoElement)
        THEN [raised |-> NoError, board |-> b]
        ELSE [raised |-> NoError,
              board |-> tile_exists_changed([b EXCEPT !.exists[t] = value], t, old, value)]

\* TileBase._setexists
_setexists(b, t, value) ==
    LET old == b.exists[t]
    IN  IF value = old THEN [raised |-> NoError, board |-> b]
        ELSE IF value /\ b.element[t] = NoElement
        THEN [raised |-> NoElementError, board |-> b]
        ELSE [raised |-> NoError,
              board |-> tile_exists_changed([b EXCEPT !.exists[t] = value], t, old, value)]

\* _setelement without "if not value: self.exists = False"
_setelement_keepexists(b, t, value) ==
    LET old == b.element[t]
        assigned == [b EXCEPT !.element[t] = value]
        changed == tile_element_changed(assigned, t, old, value)
    IN  IF value = old THEN [raised |-> NoError, board |-> b]
        ELSE IF changed.raised # NoError
        THEN [raised |-> changed.raised, board |-> assigned]
        ELSE [raised |-> NoError, board |-> [assigned EXCEPT !.catalog = changed.catalog]]

\* TileBase._setelement
_setelement(b, t, value) ==
    LET old == b.element[t]
        assigned == [b EXCEPT !.element[t] = value]
        changed == tile_element_changed(assigned, t, old, value)
        updated == [assigned EXCEPT !.catalog = changed.catalog]
    IN  IF value = old THEN [raised |-> NoError, board |-> b]
        ELSE IF changed.raised # NoError
        THEN [raised |-> changed.raised, board |-> assigned]
        ELSE IF value = NoElement
        THEN _setexists(updated, t, FALSE)
        ELSE [raised |-> NoError, board |-> updated]

(* Tile.predict_legality.                                                  *)

\* _gen yielding neighbor.exists for not neighbor.exists
GenNeighborsInverted(b, t, removed) ==
    [i \in 1 .. 6 |->
        LET neighbor == neighbors[t][i]
        IN  << ExistsOf(b, neighbor),
               (~ExistsOf(b, neighbor)) \/ neighbor \in removed >>]

\* _gen without "or neighbor in removed"
GenNeighborsNotRemoved(b, t, removed) ==
    [i \in 1 .. 6 |->
        LET neighbor == neighbors[t][i]
        IN  << ~ExistsOf(b, neighbor), ~ExistsOf(b, neighbor) >>]

\* _gen, the part yielded in the loop: (not neighbor.exists, legality_predicted)
GenNeighbors(b, t, removed) ==
    [i \in 1 .. 6 |->
        LET neighbor == neighbors[t][i]
            gone == ~ExistsOf(b, neighbor)
        IN  << gone, gone \/ neighbor \in removed >>]

\* _gen without the wrap: nothing is yielded again
GenCacheNoWrap(results, i, cache_count) == << >>

\* _gen's cache: the leading results, until a False or cache_count of them
RECURSIVE GenCache(_, _, _)
GenCache(results, i, cache_count) ==
    IF i > Len(results) THEN << >>
    ELSE LET count == IF ~results[i][2] THEN 0 ELSE cache_count
         IN  IF count > 0
             THEN <<results[i]>> \o GenCache(results, i + 1, count - 1)
             ELSE GenCache(results, i + 1, count)

\* _gen: all neighbors, then the cached first results again (the wrap)
Gen(b, t, removed) ==
    LET results == GenNeighbors(b, t, removed)
    IN  results \o GenCache(results, 1, MINADJACENT - 1)

\* the loop over _gen(): the value returned and the value left in _legal
RECURSIVE Scan(_, _, _, _, _)
Scan(results, i, actual_run, predicted_run, result) ==
    IF i > Len(results) THEN [ret |-> result, legal |-> LegalFalse]
    ELSE LET actual == results[i][1]
             predicted == results[i][2]
             run == IF actual THEN actual_run + 1 ELSE 0
             prun == IF predicted THEN predicted_run + 1 ELSE 0
         IN  IF actual /\ run >= MINADJACENT
             THEN [ret |-> TRUE, legal |-> LegalTrue]
             ELSE Scan(results, i + 1, run, prun,
                       IF predicted /\ prun >= MINADJACENT THEN TRUE ELSE result)

\* Tile.predict_legality(removed): removed = None is the empty set
predict_legality(b, t, removed) ==
    IF ~b.exists[t] \/ b.element[t] = NoElement
    THEN [ret |-> FALSE, legal |-> b.legal[t]]
    ELSE IF b.legal[t] = LegalTrue \/ (removed = {} /\ b.legal[t] = LegalFalse)
    THEN [ret |-> (b.legal[t] = LegalTrue), legal |-> b.legal[t]]
    ELSE Scan(Gen(b, t, removed), 1, 0, 0, FALSE)

\* Tile.legal (the property): exists and element is not None and predict_legality()
legal(b, t) ==
    IF b.exists[t] /\ b.element[t] # NoElement
    THEN predict_legality(b, t, {})
    ELSE [ret |-> FALSE, legal |-> b.legal[t]]

\* Tile.all_neighbors as affected_tiles calls it, with a generator: the loop
\* uses the generator up, so neighbors.difference_update(tiles) finds it
\* empty and takes no tile out
all_neighbors_of_generator(b, tiles) == UNION {real_neighbors(b, t) : t \in tiles}

\* Tile.affected_tiles(tiles): the set it returns
affected_tiles(b, tiles) ==
    {tile \in all_neighbors_of_generator(b, {t \in tiles : ExistsOf(b, t)}) :
        /\ ElementOf(b, tile) # NoElement
        /\ \E p \in {predict_legality(b, tile, tiles)} :
               p.ret /\ ~legal([b EXCEPT !.legal[tile] = p.legal], tile).ret}

\* TileBase.bitmap(tiles) over the tiles from number i on that exist
RECURSIVE BitmapFrom(_, _)
BitmapFrom(b, i) ==
    IF i >= Len0(b.exists) THEN {}
    ELSE BitOr(IF b.exists[i] THEN bit[i] ELSE {}, BitmapFrom(b, i + 1))

\* bitmap over all tiles, existing or not
bitmap_all(b) == UNION {bit[t] : t \in DOMAIN b.exists}

\* Board.bitmap
bitmap(b) == BitmapFrom(b, 0)

-----------------------------------------------------------------------------
(* The board in use: the operations a caller applies to a built board.     *)

\* the elements the callers of the model assign (Board.CARDINALS has 'fire';
\* 'salt' is the element solver.py pairs with it)
Elements == {"fire", "salt"}

\* the middle tile of the board and the tiles around it
Center(r) == BuiltCell(r, r, r)
CenterLine(r) ==
    {Center(r), BuiltNeighbors(r)[Center(r)][1], BuiltNeighbors(r)[Center(r)][4]} \ {Dummy}
CenterHexagon(r) ==
    ({Center(r)} \cup {BuiltNeighbors(r)[Center(r)][i] : i \in 1 .. 6}) \ {Dummy}

\* the sets of removed tiles the QueryPredict action passes: the value left
\* in _legal depends on removed only through its being empty or not
Removals == {R \in SUBSET played : Cardinality(R) <= MaxRemoved}

Store(b) ==
    /\ element' = b.element
    /\ exists_' = b.exists
    /\ _legal' = b.legal
    /\ catalog' = b.catalog

\* tile.element = value
SetElement ==
    /\ pc = "ready"
    /\ \E t \in played, value \in Elements \cup {NoElement} :
        LET r == _setelement(Board, t, value)
        IN  Store(r.board) /\ raised' = r.raised
    /\ UNCHANGED <<geomVars, played, solverVars>>

\* tile.exists = value
SetExists ==
    /\ pc = "ready"
    /\ \E t \in played, value \in BOOLEAN :
        LET r == _setexists(Board, t, value)
        IN  Store(r.board) /\ raised' = r.raised
    /\ UNCHANGED <<geomVars, played, solverVars>>

\* tile.legal
QueryLegal ==
    /\ pc = "ready"
    /\ \E t \in played :
        _legal' = [_legal EXCEPT ![t] = legal(Board, t).legal]
    /\ raised' = NoError
    /\ UNCHANGED <<geomVars, element, exists_, catalog, played, solverVars>>

\* tile.predict_legality(removed)
QueryPredict ==
    /\ pc = "ready"
    /\ \E t \in played, removed \in Removals :
        _legal' = [_legal EXCEPT ![t] = predict_legality(Board, t, removed).legal]
    /\ raised' = NoError
    /\ UNCHANGED <<geomVars, element, exists_, catalog, played, solverVars>>

(* Spec: a freshly constructed board whose user assigns and clears         *)
(* elements, sets and clears existence and asks for legality, on the       *)
(* middle tile and its left and right neighbors.                           *)

Init ==
    /\ BuiltBoard(BoardRadius)
    /\ FreshTiles(BoardRadius)
    /\ raised = NoError
    /\ played = CenterLine(BoardRadius)
    /\ NoSolver

Next ==
    \/ SetElement
    \/ SetExists
    \/ QueryLegal
    \/ QueryPredict

Spec == Init /\ [][Next]_vars

(* SpecSolve: a board as read_board leaves it (main.py: every tile gets    *)
(* its element or None, and exists iff it has one), whose elements then    *)
(* stay fixed while tiles are removed and restored and legality is asked,  *)
(* as the solver does; on the middle tile and its six neighbors, all of    *)
(* them read as occupied except, possibly, the middle tile's left neighbor.*)

ReadBoard(r, assigned) ==
    /\ element = assigned
    /\ exists_ = [t \in DOMAIN assigned |-> assigned[t] # NoElement]
    /\ _legal = [t \in DOMAIN assigned |-> LegalNone]
    /\ catalog = [e \in {assigned[t] : t \in DOMAIN assigned} \ {NoElement} |->
                    {t \in DOMAIN assigned : assigned[t] = e}]

InitSolve ==
    /\ BuiltBoard(BoardRadius)
    /\ played = CenterHexagon(BoardRadius)
    /\ \E empty \in SUBSET {BuiltNeighbors(BoardRadius)[Center(BoardRadius)][1]} :
        ReadBoard(BoardRadius,
                  [t \in 0 .. TileCount(BoardRadius) - 1 |->
                      IF t \in CenterHexagon(BoardRadius) \ empty
                      THEN "fire" ELSE NoElement])
    /\ raised = NoError
    /\ NoSolver

NextSolve ==
    \/ SetExists
    \/ QueryLegal
    \/ QueryPredict

SpecSolve == InitSolve /\ [][NextSolve]_vars

-----------------------------------------------------------------------------
(* Python lists and itertools, as sequences.                               *)

\* The value of a one-element set.  Only({e(x) : x \in {v}}) is e(v) with v
\* computed once, however often e uses it.
Only(S) == CHOOSE x \in S : TRUE

\* the concatenation of the sequences of a sequence
RECURSIVE Flatten(_)
Flatten(lists) ==
    IF Len(lists) = 0 THEN << >> ELSE Head(lists) \o Flatten(Tail(lists))

\* itertools.combinations(tiles, 2), each pair a move
combinations2(tiles) ==
    Flatten([i \in 1 .. Len(tiles) |->
                [j \in 1 .. Len(tiles) - i |-> <<tiles[i], tiles[i + j]>>]])

\* product that stops after the second list
product_of_two(lists) ==
    IF Len(lists) < 2 THEN << >>
    ELSE Flatten([i \in 1 .. Len(lists[1]) |->
                    [j \in 1 .. Len(lists[2]) |-> <<lists[1][i], lists[2][j]>>]])

\* itertools.product(*lists): the last list varies fastest
RECURSIVE product(_)
product(lists) ==
    IF Len(lists) = 0 THEN << << >> >>
    ELSE Only({ Flatten([i \in 1 .. Len(first) |->
                            [j \in 1 .. Len(rest) |-> <<first[i]>> \o rest[j]]]) :
                first \in {Head(lists)}, rest \in {product(Tail(lists))} })

\* chain_zip that stops after the first pair
chain_zip_first(a, b) ==
    IF Len(a) = 0 \/ Len(b) = 0 THEN << >> ELSE <<Head(a), Head(b)>>

\* itertools.chain(*zip(a, b)): a[0], b[0], a[1], b[1], ... while both last
RECURSIVE chain_zip(_, _)
chain_zip(a, b) ==
    IF Len(a) = 0 \/ Len(b) = 0 THEN << >>
    ELSE <<Head(a), Head(b)>> \o chain_zip(Tail(a), Tail(b))

\* chain_zip_rest without the second "it": the pairs only
chain_zip_no_rest(a, b) == chain_zip(a, b)

\* it = iter(b); itertools.chain(*zip(a, it), it): the pairs, then what zip
\* left in the iterator it (nothing once zip has run it dry)
chain_zip_rest(a, b) ==
    chain_zip(a, b) \o
        (IF Len(a) < Len(b) THEN SubSeq(b, Len(a) + 1, Len(b)) ELSE << >>)

\* the numbers of a set of tiles, in the order of Board.tiles
TilesInOrder(b, S) ==
    SelectSeq([i \in 1 .. Len0(b.exists) |-> i - 1], LAMBDA t : t \in S)

-----------------------------------------------------------------------------
(* Solver.valid_moves and the Board methods it calls.  A move is the       *)
(* sequence of the numbers of its tiles.                                   *)

\* asking every tile for legal leaves each answer in the tile's cache
Queried(b) == [b EXCEPT !.legal = [t \in DOMAIN b.legal |-> legal(b, t).legal]]

\* legal_tiles without the test: every existing tile
legal_tiles_existing(b) == TilesInOrder(b, {t \in DOMAIN b.exists : b.exists[t]})

\* Board.legal_tiles: [t for t in self.tiles if t.legal]
legal_tiles(b) == TilesInOrder(b, {t \in DOMAIN b.exists : legal(b, t).ret})

\* Board.remaining: len(self.catalog[element])
remaining(b, e) == Cardinality(CatalogGet(b.catalog, e))

\* remaining_metals going through Board.METALS from its end
remaining_metals_reversed(b) ==
    LET present == SelectSeq(METALS, LAMBDA e : CatalogGet(b.catalog, e) # {})
    IN  [i \in 1 .. Len(present) |->
            CHOOSE t \in CatalogGet(b.catalog, present[Len(present) + 1 - i]) : TRUE]

\* Board.remaining_metals: list(self.catalog[e])[0] for every metal that has
\* tiles; which tile of a set comes first is Python's choice (the boards of
\* the model hold at most one tile of each metal)
remaining_metals(b) ==
    LET present == SelectSeq(METALS, LAMBDA e : CatalogGet(b.catalog, e) # {})
    IN  [i \in 1 .. Len(present) |-> CHOOSE t \in CatalogGet(b.catalog, present[i]) : TRUE]

\* itertools.takewhile(operator.attrgetter('legal'), tiles)
RECURSIVE takewhile_legal(_, _)
takewhile_legal(b, tiles) ==
    IF Len(tiles) = 0 \/ ~legal(b, Head(tiles)).ret THEN << >>
    ELSE <<Head(tiles)>> \o takewhile_legal(b, Tail(tiles))

\* Tile.all_neighbors: the real neighbors of tiles, without tiles themselves
all_neighbors(b, tiles) == (UNION {real_neighbors(b, t) : t \in tiles}) \ tiles

\* cardinal_moves without "tiles.append(catalog['salt'][0])"
RECURSIVE cardinal_moves_no_salt(_, _, _)
cardinal_moves_no_salt(c, i, moves) ==
    IF i > Len(c.order) THEN [returned |-> FALSE, moves |-> moves]
    ELSE LET e == c.order[i]
             tiles == c.tiles[e]
             count == c.counts[e]
             odd == count % 2
             all_legal == Len(tiles) = count /\ c.salt_is_free /\ c.quints_total = 0
         IN  IF ~c.in_catalog[e] THEN cardinal_moves_no_salt(c, i + 1, moves)
             ELSE IF all_legal /\ (odd = 0 \/ Len(c.salts) > 0)
             THEN [returned |-> TRUE, moves |-> << tiles >>]
             ELSE cardinal_moves_no_salt(c, i + 1,
                    moves \o combinations2(tiles)
                          \o (IF c.salts_total > c.odd_cardinals + 1 \/ odd = 1
                              THEN product(<<c.salts, tiles>>)
                              ELSE << >>))

\* cardinal_moves without "if salts_total > odd_cardinals+1 or odd"
RECURSIVE cardinal_moves_any_salt(_, _, _)
cardinal_moves_any_salt(c, i, moves) ==
    IF i > Len(c.order) THEN [returned |-> FALSE, moves |-> moves]
    ELSE LET e == c.order[i]
             tiles == c.tiles[e]
             count == c.counts[e]
             odd == count % 2
             all_legal == Len(tiles) = count /\ c.salt_is_free /\ c.quints_total = 0
         IN  IF ~c.in_catalog[e] THEN cardinal_moves_any_salt(c, i + 1, moves)
             ELSE IF all_legal /\ odd = 1 /\ Len(c.salts) > 0
             THEN [returned |-> TRUE, moves |-> << tiles \o <<c.salts[1]>> >>]
             ELSE IF all_legal /\ odd = 0
             THEN [returned |-> TRUE, moves |-> << tiles >>]
             ELSE cardinal_moves_any_salt(c, i + 1,
                    moves \o combinations2(tiles) \o product(<<c.salts, tiles>>))

\* valid_moves, "for element, count in cardinal_counts.items()", from the
\* i-th cardinal on; c holds the locals of valid_moves the loop reads
RECURSIVE cardinal_moves(_, _, _)
cardinal_moves(c, i, moves) ==
    IF i > Len(c.order) THEN [returned |-> FALSE, moves |-> moves]
    ELSE LET e == c.order[i]
             tiles == c.tiles[e]
             count == c.counts[e]
             odd == count % 2
             all_legal == Len(tiles) = count /\ c.salt_is_free /\ c.quints_total = 0
         IN  IF ~c.in_catalog[e] THEN cardinal_moves(c, i + 1, moves)
             ELSE IF all_legal /\ odd = 1 /\ Len(c.salts) > 0
             THEN [returned |-> TRUE, moves |-> << tiles \o <<c.salts[1]>> >>]
             ELSE IF all_legal /\ odd = 0
             THEN [returned |-> TRUE, moves |-> << tiles >>]
             ELSE cardinal_moves(c, i + 1,
                    moves \o combinations2(tiles)
                          \o (IF c.salts_total > c.odd_cardinals + 1 \/ odd = 1
                              THEN product(<<c.salts, tiles>>)
                              ELSE << >>))

\* single_legal without "legal_tiles[0].element == 'gold'"
single_legal_any_tile(q, legal_list) ==
    IF CatalogGet(q.catalog, "silver") = {} THEN << legal_list >> ELSE << >>

\* valid_moves, "if len(legal_tiles) == 1": the fast exit for gold
single_legal(q, legal_list) ==
    IF q.element[legal_list[1]] = "gold" /\ CatalogGet(q.catalog, "silver") = {}
    THEN << legal_list >>
    ELSE << >>

\* the body of valid_moves after "legal_tiles = board.legal_tiles()": q is
\* the board with every legality cached, legal_list the legal tiles
moves_of(q, legal_list, order) ==
    LET cat(e) == SelectSeq(legal_list, LAMBDA t : q.element[t] = e)
        metals == remaining_metals(q)
        legal_metals == takewhile_legal(q, metals)
        quicksilver == cat("quicksilver")
        quicksilver_count == remaining(q, "quicksilver")
        metal_moves ==
            IF Len(legal_metals) > 0
            THEN [i \in 1 .. Len(quicksilver) |-> <<quicksilver[i], legal_metals[1]>>]
            ELSE << >>
        vitae == cat("vitae")
        mors == cat("mors")
        vitae_mors == Len(vitae) > 0 /\ Len(mors) > 0
        vitae_moves == IF vitae_mors THEN product(<<vitae, mors>>) ELSE << >>
        salts == cat("salt")
        salts_legal == Len(salts)
        salts_total == remaining(q, "salt")
        counts == [e \in {order[i] : i \in 1 .. Len(order)} |-> remaining(q, e)]
        any_cardinals == \E e \in DOMAIN counts : counts[e] # 0
        salt_is_free ==
            /\ salts_legal = salts_total
            /\ ~\E t \in all_neighbors(q, CatalogGet(q.catalog, "salt")) :
                    q.exists[t] /\ ~legal(q, t).ret
        quints == cat("quintessence")
        quints_legal == Len(quints)
        quints_total == remaining(q, "quintessence")
        quint_moves ==
            IF quints_legal > 0
            THEN product(<<quints>> \o [i \in 1 .. Len(order) |-> cat(order[i])])
            ELSE << >>
        odd_cardinals == Cardinality({e \in DOMAIN counts : counts[e] % 2 = 1})
        locals == [order |-> order,
                   tiles |-> [e \in DOMAIN counts |-> cat(e)],
                   counts |-> counts,
                   in_catalog |-> [e \in DOMAIN counts |->
                                      Len(cat(e)) > 0 \/ quints_legal > 0],
                   salts |-> salts,
                   salts_total |-> salts_total,
                   odd_cardinals |-> odd_cardinals,
                   salt_is_free |-> salt_is_free,
                   quints_total |-> quints_total]
        before == metal_moves \o vitae_moves \o quint_moves
        loop == Only({cardinal_moves(c, 1, m) : c \in {locals}, m \in {before}})
        salt_moves ==
            IF salts_legal - odd_cardinals >= 2 \/ quints_total = 0
            THEN combinations2(salts)
            ELSE << >>
    IN      IF Len(legal_list) = 0 THEN << >>
            ELSE IF Len(legal_list) = 1 THEN single_legal(q, legal_list)
            ELSE IF /\ Len(legal_metals) > 0
                    /\ quicksilver_count = Len(quicksilver)
                    /\ Len(legal_metals) >= Len(metals) - 1
                    /\ quicksilver_count >= Len(metals) - 1
            THEN << chain_zip_rest(quicksilver, legal_metals) >>
            ELSE IF /\ vitae_mors
                    /\ Len(vitae) = remaining(q, "vitae")
                    /\ Len(mors) = remaining(q, "mors")
            THEN << chain_zip(vitae, mors) >>
            ELSE IF salts_legal = salts_total /\ ~(salts_legal > 0 \/ any_cardinals)
            THEN << salts >>
            ELSE Only({IF l.returned THEN l.moves ELSE l.moves \o salt_moves :
                       l \in {loop}})

\* Solver.valid_moves on board b, Board.CARDINALS iterating in order; the
\* value is the list of moves and the board with the legality caches filled
valid_moves(b, order) ==
    Only({ [board |-> q, moves |-> moves_of(q, legal_list, order)] :
           q \in {Queried(b)}, legal_list \in {legal_tiles(b)} })

-----------------------------------------------------------------------------
(* SolverFrame and Solver.solve.  A frame is [move, moves, bitmap]; the    *)
(* state the solver works on is st = [board, solver].                      *)

\* self.stack[-1] on the empty list
IndexError == "IndexError: list index out of range"

\* what solve returns, and while it runs
RetTrue == "True"
RetFalse == "False"
RetNone == "None"
Running == "running"

\* Tile.bitmap with the bit of the first tile only
move_bitmap_first(move) == IF Len(move) = 0 THEN {} ELSE bit[move[1]]

\* Tile.bitmap(move)
move_bitmap(move) == UNION {bit[move[i]] : i \in 1 .. Len(move)}

\* SolverFrame._execute: tile.exists = exists for every tile, in order
RECURSIVE _execute(_, _, _)
_execute(b, tiles, exists) ==
    IF Len(tiles) = 0 THEN [raised |-> NoError, board |-> b]
    ELSE Only({ IF r.raised # NoError THEN r
                ELSE _execute(r.board, Tail(tiles), exists) :
                r \in {_setexists(b, Head(tiles), exists)} })

\* SolverFrame.__init__: the frame, and the board valid_moves leaves
SolverFrame(b, order, frame_bitmap) ==
    Only({ [frame |-> [move |-> << >>, moves |-> v.moves, bitmap |-> frame_bitmap],
            board |-> v.board] :
           v \in {valid_moves(b, order)} })

\* pop_moves without the test "bitmap in self.solver.bitmaps": the last
\* move is taken whatever it leads to
pop_moves_unchecked(moves, frame_bitmap, bitmaps, hits) ==
    IF Len(moves) = 0
    THEN [found |-> FALSE, move |-> << >>, bitmap |-> {}, moves |-> << >>, hits |-> hits]
    ELSE [found |-> TRUE, move |-> moves[Len(moves)],
          bitmap |-> BitAndNot(frame_bitmap, move_bitmap(moves[Len(moves)])),
          moves |-> SubSeq(moves, 1, Len(moves) - 1), hits |-> hits]

\* pop_moves with "return None" for "continue": the frame gives up at the
\* first move that leads to a visited bitmap
pop_moves_gives_up(moves, frame_bitmap, bitmaps, hits) ==
    IF Len(moves) = 0
    THEN [found |-> FALSE, move |-> << >>, bitmap |-> {}, moves |-> << >>, hits |-> hits]
    ELSE IF BitAndNot(frame_bitmap, move_bitmap(moves[Len(moves)])) \in bitmaps
    THEN [found |-> FALSE, move |-> << >>, bitmap |-> {},
          moves |-> SubSeq(moves, 1, Len(moves) - 1), hits |-> hits + 1]
    ELSE [found |-> TRUE, move |-> moves[Len(moves)],
          bitmap |-> BitAndNot(frame_bitmap, move_bitmap(moves[Len(moves)])),
          moves |-> SubSeq(moves, 1, Len(moves) - 1), hits |-> hits]

\* SolverFrame.run, "while self.moves": pops moves until one leads to a
\* bitmap not visited yet
RECURSIVE pop_moves(_, _, _, _)
pop_moves(moves, frame_bitmap, bitmaps, hits) ==
    IF Len(moves) = 0
    THEN [found |-> FALSE, move |-> << >>, bitmap |-> {}, moves |-> << >>, hits |-> hits]
    ELSE LET move == moves[Len(moves)]
             rest == SubSeq(moves, 1, Len(moves) - 1)
             after == BitAndNot(frame_bitmap, move_bitmap(move))
         IN  IF after \in bitmaps
             THEN pop_moves(rest, frame_bitmap, bitmaps, hits + 1)
             ELSE [found |-> TRUE, move |-> move, bitmap |-> after,
                   moves |-> rest, hits |-> hits]

\* SolverFrame.run, continued with the moves popped: the move found is
\* executed
run_move(undone, popped, top) ==
    Only({ [found |-> popped.found,
            bitmap |-> popped.bitmap,
            raised |-> IF undone.raised # NoError THEN undone.raised ELSE done.raised,
            board |-> done.board,
            frame |-> [move |-> popped.move, moves |-> popped.moves, bitmap |-> top.bitmap],
            hits |-> popped.hits] :
           done \in {IF popped.found
                     THEN _execute(undone.board, popped.move, FALSE)
                     ELSE undone} })

\* run_frame without "self._execute(self.move, True)": the move of the
\* frame stays applied
run_frame_no_undo(st, top) ==
    Only({ run_move(undone, popped, top) :
           undone \in {[raised |-> NoError, board |-> st.board]},
           popped \in {pop_moves(top.moves, top.bitmap,
                                 st.solver.bitmaps, st.solver.bitmap_hits)} })

\* SolverFrame.run on frame top: the move of the frame is undone, then the
\* next move is looked for; found is "a bitmap was returned" (None
\* otherwise)
run_frame(st, top) ==
    Only({ run_move(undone, popped, top) :
           undone \in {IF Len(top.move) > 0
                       THEN _execute(st.board, top.move, TRUE)
                       ELSE [raised |-> NoError, board |-> st.board]},
           popped \in {pop_moves(top.moves, top.bitmap,
                                 st.solver.bitmaps, st.solver.bitmap_hits)} })

\* top = self.stack[-1]; top.run()
run(st) == run_frame(st, st.solver.stack[Len(st.solver.stack)])

\* save_solution without the move of the top frame
save_solution_without_top(stack) == [i \in 1 .. Len(stack) - 1 |-> stack[i].move]

\* Solver.save_solution: [frame.move for frame in self.stack]
save_solution(stack) == [i \in 1 .. Len(stack) |-> stack[i].move]

\* solve_start without "if self.stack is None": every call starts over on
\* the board as it is
solve_start_always_new(st, order) ==
    Only({ [board |-> first.board,
            solver |-> [st.solver EXCEPT !.won = "None",
                                         !.iterations = 0,
                                         !.bitmaps = {first.frame.bitmap},
                                         !.bitmap_hits = 0,
                                         !.stack_is_none = FALSE,
                                         !.stack = << first.frame >>]] :
           first \in {SolverFrame(st.board, order, bitmap(st.board))} })

\* Solver.solve before its loop: self.won = None, and the first frame if
\* there is no stack yet
solve_start(st, order) ==
    IF st.solver.stack_is_none
    THEN Only({ [board |-> first.board,
                 solver |-> [st.solver EXCEPT !.won = "None",
                                              !.iterations = 0,
                                              !.bitmaps = {first.frame.bitmap},
                                              !.bitmap_hits = 0,
                                              !.stack_is_none = FALSE,
                                              !.stack = << first.frame >>]] :
                first \in {SolverFrame(st.board, order, bitmap(st.board))} })
    ELSE [st EXCEPT !.solver.won = "None"]

\* after_run without the loss condition: the loop goes on with an empty
\* stack
after_run_no_loss(r, ran, depth, order) ==
    LET saved == IF depth > Len(ran.solution)
                 THEN [ran EXCEPT !.solution = save_solution(ran.stack)]
                 ELSE ran
        backtracked == [saved EXCEPT !.stack = SubSeq(saved.stack, 1, depth - 1)]
    IN  IF r.raised # NoError
        THEN [ret |-> Running, raised |-> r.raised,
              state |-> [board |-> r.board, solver |-> ran]]
        ELSE IF r.found /\ r.bitmap # {}
        THEN Only({ [ret |-> Running, raised |-> NoError,
                     state |-> [board |-> pushed.board,
                                solver |-> [ran EXCEPT !.bitmaps = @ \cup {r.bitmap},
                                                       !.stack = Append(@, pushed.frame)]]] :
                    pushed \in {SolverFrame(r.board, order, r.bitmap)} })
        ELSE IF ~r.found
        THEN [ret |-> Running, raised |-> NoError,
              state |-> [board |-> r.board, solver |-> backtracked]]
        ELSE [ret |-> RetTrue, raised |-> NoError,
              state |-> [board |-> r.board,
                         solver |-> [ran EXCEPT !.solution = save_solution(ran.stack),
                                                !.won = "True"]]]

\* after_run with "if bitmap is not None" for "if bitmap": a frame is
\* pushed for the zero bitmap too
after_run_no_win(r, ran, depth, order) ==
    LET saved == IF depth > Len(ran.solution)
                 THEN [ran EXCEPT !.solution = save_solution(ran.stack)]
                 ELSE ran
        backtracked == [saved EXCEPT !.stack = SubSeq(saved.stack, 1, depth - 1)]
    IN  IF r.raised # NoError
        THEN [ret |-> Running, raised |-> r.raised,
              state |-> [board |-> r.board, solver |-> ran]]
        ELSE IF r.found
        THEN Only({ [ret |-> Running, raised |-> NoError,
                     state |-> [board |-> pushed.board,
                                solver |-> [ran EXCEPT !.bitmaps = @ \cup {r.bitmap},
                                                       !.stack = Append(@, pushed.frame)]]] :
                    pushed \in {SolverFrame(r.board, order, r.bitmap)} })
        ELSE IF ~r.found
        THEN IF depth = 1
             THEN [ret |-> RetFalse, raised |-> NoError,
                   state |-> [board |-> r.board,
                              solver |-> [backtracked EXCEPT !.won = "False"]]]
             ELSE [ret |-> Running, raised |-> NoError,
                   state |-> [board |-> r.board, solver |-> backtracked]]
        ELSE [ret |-> RetTrue, raised |-> NoError,
              state |-> [board |-> r.board,
                         solver |-> [ran EXCEPT !.solution = save_solution(ran.stack),
                                                !.won = "True"]]]

\* the loop of Solver.solve after "bitmap = top.run()": r is what run
\* gave, ran the solver with the top frame as run left it
after_run(r, ran, depth, order) ==
    LET saved == IF depth > Len(ran.solution)
                 THEN [ran EXCEPT !.solution = save_solution(ran.stack)]
                 ELSE ran
        backtracked == [saved EXCEPT !.stack = SubSeq(saved.stack, 1, depth - 1)]
    IN  IF r.raised # NoError
        THEN [ret |-> Running, raised |-> r.raised,
              state |-> [board |-> r.board, solver |-> ran]]
        ELSE IF r.found /\ r.bitmap # {}
        THEN Only({ [ret |-> Running, raised |-> NoError,
                     state |-> [board |-> pushed.board,
                                solver |-> [ran EXCEPT !.bitmaps = @ \cup {r.bitmap},
                                                       !.stack = Append(@, pushed.frame)]]] :
                    pushed \in {SolverFrame(r.board, order, r.bitmap)} })
        ELSE IF ~r.found
        THEN IF depth = 1
             THEN [ret |-> RetFalse, raised |-> NoError,
                   state |-> [board |-> r.board,
                              solver |-> [backtracked EXCEPT !.won = "False"]]]
             ELSE [ret |-> Running, raised |-> NoError,
                   state |-> [board |-> r.board, solver |-> backtracked]]
        ELSE [ret |-> RetTrue, raised |-> NoError,
              state |-> [board |-> r.board,
                         solver |-> [ran EXCEPT !.solution = save_solution(ran.stack),
                                                !.won = "True"]]]

\* one iteration of the loop of Solver.solve; ret is Running when the loop
\* goes on
iteration(st, order) ==
    IF Len(st.solver.stack) = 0
    THEN [ret |-> Running, raised |-> IndexError,
          state |-> [st EXCEPT !.solver.iterations = @ + 1]]
    ELSE Only({ after_run(r,
                          [st.solver EXCEPT !.iterations = @ + 1,
                                            !.stack[Len(st.solver.stack)] = r.frame,
                                            !.bitmap_hits = r.hits],
                          Len(st.solver.stack), order) :
                r \in {run(st)} })

\* Solver.solve(steps) as one call: the loop from state st with steps left
RECURSIVE solve_loop(_, _, _)
solve_loop(st, order, left) ==
    IF left = 0 THEN [ret |-> RetNone, raised |-> NoError, state |-> st]
    ELSE Only({ IF n.ret # Running \/ n.raised # NoError THEN n
                ELSE solve_loop(n.state, order, IF left > 0 THEN left - 1 ELSE left) :
                n \in {iteration(st, order)} })

solve(st, order, budget) ==
    Only({ solve_loop(started, order, budget) : started \in {solve_start(st, order)} })

-----------------------------------------------------------------------------
(* The solver in use: main.py reads the board and calls                    *)
(* Solver(self.board).solve().                                             *)

SolverState == [board |-> Board, solver |-> solver]

StoreState(st) == Store(st.board) /\ solver' = st.solver

\* the last call, with its return value (or its exception) filled in
Returned(ret) == [calls EXCEPT ![Len(calls)].ret = ret]

\* the budgets granted so far to the calls with a budget
RECURSIVE Granted(_)
Granted(cs) ==
    IF Len(cs) = 0 THEN 0
    ELSE (IF Head(cs).steps = StepsNone THEN 0 ELSE Head(cs).steps) + Granted(Tail(cs))

\* solver = Solver(board); solver.solve(): up to the loop
SolveUnbounded ==
    /\ pc = "ready"
    /\ solver.stack_is_none
    /\ \E started \in {solve_start(SolverState, CARDINALS)} : StoreState(started)
    /\ steps' = StepsNone
    /\ calls' = Append(calls, [steps |-> StepsNone, ret |-> Running, begun |-> 0])
    /\ pc' = "solve"
    /\ raised' = NoError
    /\ UNCHANGED <<radius, by, bx, number, rows, neighbors, bit, played, CARDINALS>>

\* solver.solve(k), on a new Solver or on one that has returned: up to the loop
SolveSteps ==
    /\ pc = "ready"
    /\ raised = NoError
    /\ \E k \in 1 .. MaxSteps - Granted(calls) :
        /\ steps' = k
        /\ calls' = Append(calls, [steps |-> k, ret |-> Running,
                                   begun |-> IF solver.stack_is_none THEN 0
                                             ELSE solver.iterations])
    /\ \E started \in {solve_start(SolverState, CARDINALS)} : StoreState(started)
    /\ pc' = "solve"
    /\ raised' = NoError
    /\ UNCHANGED <<radius, by, bx, number, rows, neighbors, bit, played, CARDINALS>>

\* one iteration of "while steps is None or steps > 0", with the return
\* that ends it
Iterate ==
    /\ pc = "solve"
    /\ steps = StepsNone \/ steps > 0
    /\ \E n \in {iteration(SolverState, CARDINALS)} :
           /\ StoreState(n.state)
           /\ raised' = n.raised
           /\ IF n.raised # NoError
              THEN pc' = "ready" /\ calls' = Returned(n.raised)
              ELSE IF n.ret # Running
              THEN pc' = "ready" /\ calls' = Returned(n.ret)
              ELSE pc' = pc /\ calls' = calls
    /\ steps' = IF steps > 0 THEN steps - 1 ELSE steps
    /\ UNCHANGED <<radius, by, bx, number, rows, neighbors, bit, played, CARDINALS>>

\* the loop ends with the budget used up: return None
Exhaust ==
    /\ pc = "solve"
    /\ steps = 0
    /\ pc' = "ready"
    /\ calls' = Returned(RetNone)
    /\ UNCHANGED <<radius, by, bx, number, rows, neighbors, bit, tileVars, raised, played,
                   CARDINALS, solver, steps>>

(* The boards the solver is started on: the middle tile and its six        *)
(* neighbors, read by read_board.  Either at most MaxTiles tiles with the  *)
(* elements of one palette, or any part of QuintLayout (a quintessence in  *)
(* the middle, around it one tile of each cardinal, a salt and a second    *)
(* quintessence), or any part of PairLayout (a salt in the middle, around  *)
(* it three fire, two water and a salt).  A board holds at most one tile   *)
(* of each metal, as the game's boards do.                                 *)

Hexagon == CenterHexagon(BoardRadius)

Palettes ==
    { {"fire", "water", "salt"},
      {"vitae", "mors", "salt"},
      {"quicksilver", "copper", "silver", "gold"} }

Populated(a) == {t \in DOMAIN a : a[t] # NoElement}

OneOfEachMetal(a) ==
    \A i \in 1 .. Len(METALS) : Cardinality({t \in DOMAIN a : a[t] = METALS[i]}) <= 1

PaletteBoardsOf(most) ==
    UNION { {a \in [Hexagon -> P \cup {NoElement}] :
                Cardinality(Populated(a)) <= most /\ OneOfEachMetal(a)} :
            P \in Palettes }

PaletteBoards == PaletteBoardsOf(MaxTiles)

QuintLayout ==
    LET c == Center(BoardRadius)
        around == <<"air", "earth", "fire", "water", "salt", "quintessence">>
    IN  [t \in Hexagon |->
            IF t = c THEN "quintessence"
            ELSE around[CHOOSE i \in 1 .. 6 : BuiltNeighbors(BoardRadius)[c][i] = t]]

QuintBoards ==
    {[t \in Hexagon |-> IF t \in kept THEN QuintLayout[t] ELSE NoElement] :
        kept \in SUBSET Hexagon}

PairLayout ==
    LET c == Center(BoardRadius)
        around == <<"fire", "water", "fire", "water", "salt", "fire">>
    IN  [t \in Hexagon |->
            IF t = c THEN "salt"
            ELSE around[CHOOSE i \in 1 .. 6 : BuiltNeighbors(BoardRadius)[c][i] = t]]

PairBoards ==
    {[t \in Hexagon |-> IF t \in kept THEN PairLayout[t] ELSE NoElement] :
        kept \in SUBSET Hexagon}

\* quicksilver and metals next to a salt and a cardinal tile
MetalLayout ==
    LET c == Center(BoardRadius)
        around == <<"quicksilver", "copper", "salt", "silver", "fire", "gold">>
    IN  [t \in Hexagon |->
            IF t = c THEN "quicksilver"
            ELSE around[CHOOSE i \in 1 .. 6 : BuiltNeighbors(BoardRadius)[c][i] = t]]

MetalBoards ==
    {[t \in Hexagon |-> IF t \in kept THEN MetalLayout[t] ELSE NoElement] :
        kept \in SUBSET Hexagon}

SolverBoards == PaletteBoards \cup QuintBoards \cup PairBoards

\* the orders Board.CARDINALS can iterate in.  A cardinal that has no tile
\* on the board adds no move and ends no loop, so one order is taken for
\* the cardinals board a lacks: after the others, sorted.
CardinalOrders ==
    {o \in [1 .. Len(Cardinals) -> {Cardinals[i] : i \in 1 .. Len(Cardinals)}] :
        \A i, j \in 1 .. Len(Cardinals) : i # j => o[i] # o[j]}

Position(order, e) == CHOOSE i \in 1 .. Len(order) : order[i] = e

OrdersFor(a) ==
    LET absent(e) == \A t \in DOMAIN a : a[t] # e
    IN  {o \in CardinalOrders :
            \A i, j \in 1 .. Len(Cardinals) :
                (absent(Cardinals[j]) /\ (~absent(Cardinals[i]) \/ i < j))
                    => Position(o, Cardinals[i]) < Position(o, Cardinals[j])}

\* the board as read, a new Solver on it, and no call made yet
InitBoards(boards) ==
    /\ BuiltBoard(BoardRadius)
    /\ played = Hexagon
    /\ \E a \in boards :
        /\ ReadBoard(BoardRadius,
                     [t \in 0 .. TileCount(BoardRadius) - 1 |->
                         IF t \in Hexagon THEN a[t] ELSE NoElement])
        /\ CARDINALS \in OrdersFor(a)
    /\ raised = NoError
    /\ solver = NewSolver
    /\ steps = StepsNone
    /\ calls = << >>

(* SpecSolver: one Solver per board and one solve() without a budget, as   *)
(* main.py and training.py call it.  A call that has started runs on: the  *)
(* loop has no wait in it.                                                 *)

InitSolver == InitBoards(SolverBoards)

NextSolver ==
    \/ SolveUnbounded
    \/ Iterate

SpecSolver == InitSolver /\ [][NextSolver]_vars /\ WF_vars(NextSolver)

(* SpecResume: solve(k) calls with budgets, one after the other on the     *)
(* same Solver, whatever the call before returned.                         *)

ResumeBoards == PaletteBoardsOf(MaxResumeTiles) \cup QuintBoards

InitResume == InitBoards(ResumeBoards)

NextResume ==
    \/ SolveSteps
    \/ Iterate
    \/ Exhaust

SpecResume == InitResume /\ [][NextResume]_vars

(* SpecMoves: valid_moves as a function of the board, called once on the   *)
(* board as read.  The call asks every tile whether it is legal, which      *)
(* leaves the answers in the tiles' caches; the list it returns is a        *)
(* function of the board and of the order of Board.CARDINALS.               *)

\* Solver(board).valid_moves()
ValidMoves ==
    /\ pc = "ready"
    /\ \E v \in {valid_moves(Board, CARDINALS)} : Store(v.board)
    /\ pc' = "moves"
    /\ UNCHANGED <<radius, by, bx, number, rows, neighbors, bit, raised, played,
                   CARDINALS, solver, steps, calls>>

InitMoves == InitBoards(SolverBoards \cup MetalBoards)

NextMoves == ValidMoves

SpecMoves == InitMoves /\ [][NextMoves]_vars

(* SpecMoveOrder: valid_moves called once on each of the same boards; the  *)
(* properties of what a single move is made of are stated over it.         *)

SpecMoveOrder == InitMoves /\ [][NextMoves]_vars

-----------------------------------------------------------------------------
(* Properties.                                                             *)

\* The rule itself: at least MINADJACENT cyclically consecutive neighbor
\* slots of t hold no existing tile, tiles in gone counted as not existing.
HasRun(b, t, gone) ==
    \E i \in 0 .. 5 : \A k \in 0 .. MINADJACENT - 1 :
        LET n == neighbors[t][((i + k) % 6) + 1]
        IN  ~ExistsOf(b, n) \/ n \in gone

\* the tiles of the board after the step
BoardNext ==
    [element |-> element', exists |-> exists_', legal |-> _legal', catalog |-> catalog']

\* b with every cached legality forgotten
Uncached(b) == [b EXCEPT !.legal = [n \in DOMAIN b.legal |-> LegalNone]]

C2_CacheCoherent ==
    pc = "ready" =>
        \A t \in Tiles : legal(Board, t).ret = legal(Uncached(Board), t).ret

\* a tile cached as illegal and one cached as legal, after a neighbor of
\* each was removed
C2_Witness ==
    /\ pc = "ready"
    /\ \E t \in played, u \in played :
        /\ exists_[t] /\ _legal[t] = LegalFalse
        /\ exists_[u] /\ _legal[u] = LegalTrue
        /\ \E n \in real_neighbors(Board, t) : ~exists_[n]
        /\ \E n \in real_neighbors(Board, u) : ~exists_[n]

(* C3: legality is monotone: over a step that restores no tile and changes *)
(* no element, a tile that was legal and still exists is still legal (a    *)
(* step that changes neither existence nor cached legality changes no      *)
(* legal() result).                                                        *)
C3_Monotone ==
    [][ \/ UNCHANGED <<exists_, _legal>>
        \/ ~( /\ pc = "ready"
              /\ element' = element
              /\ \A n \in Tiles : exists_'[n] => exists_[n] )
        \/ \A t \in Tiles :
              (exists_[t] /\ exists_'[t] /\ legal(Board, t).ret)
                  => legal(BoardNext, t).ret ]_vars

\* a tile still legal, and cached so, with every neighboring tile removed
C3_Witness ==
    /\ pc = "ready"
    /\ \E t \in played :
        /\ exists_[t] /\ _legal[t] = LegalTrue /\ legal(Board, t).ret
        /\ Cardinality(real_neighbors(Board, t)) = 6
        /\ \A n \in real_neighbors(Board, t) : ~exists_[n]

\* the tiles whose bit is set in mask
MarkedIn(mask) == {t \in Tiles : BitAndNot(bit[t], mask) = {} /\ bit[t] # {}}

\* a fresh board given b's elements and exactly the tiles marked in mask
FromBitmap(b, mask) ==
    [element |-> b.element,
     exists |-> [t \in DOMAIN b.exists |-> t \in MarkedIn(mask)],
     legal |-> [t \in DOMAIN b.legal |-> LegalNone],
     catalog |-> b.catalog]

(* C4: bitmap round trip: a fresh board given the same elements and        *)
(* exactly the tiles marked existing in board.bitmap() returns the same    *)
(* legal() for every tile as the board itself, whatever sequence of        *)
(* set_element, set_exists and legal() produced the board.                 *)
C4_RoundTrip ==
    pc = "ready" =>
        \A t \in Tiles :
            legal(Board, t).ret = legal(FromBitmap(Board, bitmap(Board)), t).ret

(* C5: a tile is in the catalog set of element e iff its element is e and  *)
(* it exists.                                                              *)
C5_CatalogInv ==
    pc = "ready" =>
        \A t \in Tiles : \A e \in Elements \cup DOMAIN catalog :
            t \in CatalogGet(catalog, e) <=> (element[t] = e /\ exists_[t])

\* both elements have been catalogued, one set holds a tile and the other
\* has been emptied again
C5_Witness ==
    /\ pc = "ready"
    /\ DOMAIN catalog = Elements
    /\ \E e \in Elements, f \in Elements :
        catalog[e] # {} /\ catalog[f] = {}
    /\ \E t \in played : element[t] # NoElement /\ ~exists_[t]

(* C6: a tile exists only if it has an element, and setting an existing    *)
(* tile's element to none leaves the tile nonexistent.                     *)
C6_ExistsHasElement ==
    /\ [](pc = "ready" => \A t \in Tiles : exists_[t] => element[t] # NoElement)
    /\ [][ \A t \in DOMAIN element \cap DOMAIN element' :
              (exists_[t] /\ element[t] # NoElement /\ element'[t] = NoElement)
                  => (~exists_'[t] /\ raised' = NoError) ]_vars

\* a tile with no element that does not exist but whose legality was
\* cached while it existed
C6_Witness ==
    /\ pc = "ready"
    /\ \E t \in played :
        element[t] = NoElement /\ ~exists_[t] /\ _legal[t] # LegalNone

(* C7: set_exists(tile, true) on a tile whose element is none fails with   *)
(* an error and leaves existence, catalog, bitmap and every cached         *)
(* legality unchanged.                                                     *)
C7_SetExistsFails ==
    pc = "ready" =>
        \A t \in Tiles :
            element[t] = NoElement =>
                LET r == _setexists(Board, t, TRUE)
                IN  /\ r.raised = NoElementError
                    /\ r.board = Board
                    /\ bitmap(r.board) = bitmap(Board)

\* the call has just failed, on a board that has existing tiles and cached
\* legality to lose
C7_Witness ==
    /\ pc = "ready"
    /\ raised = NoElementError
    /\ \E t \in played : element[t] = NoElement
    /\ \E u \in played : exists_[u] /\ _legal[u] # LegalNone

Without(b, R) ==
    [element |-> b.element,
     exists |-> [n \in DOMAIN b.exists |-> b.exists[n] /\ n \notin R],
     legal |-> [n \in DOMAIN b.legal |-> LegalNone],
     catalog |-> b.catalog]

Adjacent(A, B) == \E i \in 1 .. 6 : neighbors[A][i] = B

(* C10: adjacency is symmetric: for real tiles A and B of a board of any   *)
(* radius, B is in A's neighbor list iff A is in B's.                      *)
C10_Symmetric ==
    pc = "ready" =>
        \A A \in Tiles : \A B \in Tiles : Adjacent(A, B) <=> Adjacent(B, A)

\* a finished board of radius 3 or more, with tiles that have six real
\* neighbors and tiles at the rim
C10_Witness ==
    /\ pc = "ready"
    /\ radius >= 3
    /\ \E A \in Tiles : \A B \in Tiles \ {A} : ~Adjacent(A, B) \/ Adjacent(B, A)
    /\ \E A \in Tiles : \A i \in 1 .. 6 : neighbors[A][i] # Dummy
    /\ \E A \in Tiles : \E i \in 1 .. 6 : neighbors[A][i] = Dummy

-----------------------------------------------------------------------------
(* Properties of the solver.                                               *)

\* the last call made on the solver
LastCall == calls[Len(calls)]

\* a fresh copy of the board as read_board left it: every tile that has
\* an element exists and no legality is cached (the solver changes no
\* element)
OriginalBoard ==
    [element |-> element,
     exists |-> [t \in Tiles |-> element[t] # NoElement],
     legal |-> [t \in Tiles |-> LegalNone],
     catalog |-> [e \in {element[t] : t \in Tiles} \ {NoElement} |->
                    {t \in Tiles : element[t] = e}]]

\* solve() without a budget has returned True or False
C11_Returned ==
    /\ calls # << >>
    /\ LastCall.steps = StepsNone
    /\ LastCall.ret \in {RetTrue, RetFalse}

\* C11: on every board, solve() with no step budget ends after finitely
\* many iterations by returning True (Won) or False (Lost).  Every
\* iteration pushes a frame for a bitmap not visited before, pops a frame
\* or wins, and the visited bitmaps are parts of the board's first bitmap:
\* the iterations made so far and the frames still to pop never exceed
\* twice the number of visited bitmaps, so the loop cannot cycle.  It
\* raises nothing, and a call without a budget never returns None
\* (Exhausted).
C11_Terminates ==
    /\ solver.bitmaps \subseteq SUBSET bitmap(OriginalBoard)
    /\ solver.iterations + Len(solver.stack) <= 2 * Cardinality(solver.bitmaps)
    /\ raised = NoError
    /\ \A i \in 1 .. Len(calls) :
           calls[i].steps = StepsNone => calls[i].ret \in {Running, RetTrue, RetFalse}
    /\ (pc = "ready" /\ calls # << >>) => C11_Returned

\* a search that went down several frames and backtracked before it
\* returned
C11_Witness ==
    /\ C11_Returned
    /\ solver.iterations >= 20
    /\ Cardinality(solver.bitmaps) >= 8

\* the tiles of move all exist on board b
AllExist(b, move) == \A i \in 1 .. Len(move) : ExistsOf(b, move[i])

\* the moves applied in order to board b, each by removing its tiles; ok
\* says that every move found all of its tiles existing
RECURSIVE Replay(_, _)
Replay(b, moves) ==
    IF Len(moves) = 0 THEN [ok |-> TRUE, board |-> b]
    ELSE IF ~AllExist(b, Head(moves)) THEN [ok |-> FALSE, board |-> b]
    ELSE Only({ IF done.raised # NoError THEN [ok |-> FALSE, board |-> done.board]
                ELSE Replay(done.board, Tail(moves)) :
                done \in {_execute(b, Head(moves), FALSE)} })

\* the last call returned True
SolveWon == pc = "ready" /\ calls # << >> /\ LastCall.ret = RetTrue

\* C12: when solve returns True (Won), removing the tiles of
\* solver.solution move by move, in order, from a fresh copy of the
\* original board finds every tile of a move existing when the move is
\* applied and ends with bitmap 0.
C12_ReplayWins ==
    SolveWon =>
        \E r \in {Replay(OriginalBoard, solver.solution)} :
            r.ok /\ bitmap(r.board) = {}

\* a win of several moves found after backtracking
C12_Witness ==
    /\ SolveWon
    /\ Len(solver.solution) >= 2
    /\ solver.iterations > Len(solver.solution)

\* the tiles of a list of moves
TilesOf(moves) == {moves[i][j] : <<i, j>> \in
                      {p \in (1 .. Len(moves)) \X (1 .. 7) : p[2] <= Len(moves[p[1]])}}

\* C13: in every board state the solver comes to, every tile of every
\* move that valid_moves returns exists and is legal: tile.legal is true
\* as the board answers it, and as a fresh board with the same elements
\* and the same existing tiles answers it.
C13_MovesLegal ==
    \A v \in {valid_moves(Board, CARDINALS)} :
        \A t \in TilesOf(v.moves) :
            /\ ExistsOf(Board, t)
            /\ legal(Board, t).ret
            /\ legal(Without(Board, {}), t).ret

\* the solver has made moves, valid_moves offers several, and a tile of
\* the board is not legal
C13_Witness ==
    /\ solver.iterations >= 2
    /\ \E t \in Tiles : exists_[t] /\ ~legal(Board, t).ret
    /\ \E v \in {valid_moves(Board, CARDINALS)} : Len(v.moves) >= 2

\* no tile occurs twice in move
NoRepeat(move) == \A i, j \in 1 .. Len(move) : move[i] = move[j] => i = j

\* C14: in every board state, every move in the list valid_moves returns
\* is a non-empty list of tiles in which no tile is repeated.
C14_MovesNonEmpty ==
    \A v \in {valid_moves(Board, CARDINALS)} :
        \A i \in 1 .. Len(v.moves) : Len(v.moves[i]) > 0 /\ NoRepeat(v.moves[i])

(* The reference search of C15: the game's rules on the set E of tiles    *)
(* still on the board, with no shortcut and no restriction on salt.       *)

\* the tiles of E that are legal when exactly the tiles of E exist
RuleLegal(E) == {t \in E : HasRun(OriginalBoard, t, Tiles \ E)}

IsCardinal(e) == \E i \in 1 .. Len(Cardinals) : Cardinals[i] = e

IsMetal(e) == \E i \in 1 .. Len(METALS) : METALS[i] = e

\* the lowest metal E still holds (called for an E that holds one)
LowestMetal(E) ==
    METALS[CHOOSE i \in 1 .. Len(METALS) :
              /\ \E t \in E : element[t] = METALS[i]
              /\ \A j \in 1 .. i - 1 : \A t \in E : element[t] # METALS[j]]

\* two elements that leave the board together
RulePair(E, d, e) ==
    \/ d = e /\ IsCardinal(d)
    \/ d = "salt" /\ (IsCardinal(e) \/ e = "salt")
    \/ d = "vitae" /\ e = "mors"
    \/ d = "quicksilver" /\ IsMetal(e) /\ e = LowestMetal(E)

\* the sets of tiles one rule-conforming removal takes from E
RuleRemovals(E) ==
    LET L == RuleLegal(E)
    IN  {{t, u} : <<t, u>> \in
            {p \in L \X L : p[1] # p[2] /\ RulePair(E, element[p[1]], element[p[2]])}}
        \cup {{t} : t \in {g \in L : /\ element[g] = "gold"
                                      /\ \A u \in E \ {g} : ~IsMetal(element[u])}}
        \cup {{p[1], p[2], p[3], p[4], p[5]} : p \in
                {p \in L \X L \X L \X L \X L :
                    /\ element[p[1]] = "quintessence"
                    /\ \A i \in 1 .. Len(Cardinals) : element[p[i + 1]] = Cardinals[i]}}

\* some sequence of rule-conforming removals empties E
RECURSIVE Winnable(_)
Winnable(E) == E = {} \/ \E r \in RuleRemovals(E) : Winnable(E \ r)

\* the last call returned False
SolveLost == pc = "ready" /\ calls # << >> /\ LastCall.ret = RetFalse

\* C15: solve() returns False (Lost) only if the reference search finds no
\* sequence of rule-conforming removals of legal tiles that empties the
\* board the solver was started on.
C15_LostOnlyIfUnwinnable == SolveLost => ~Winnable(Populated(element))

\* the tiles of E are two adjacent tiles with the same cardinal element
CardinalPair(E) ==
    \E t, u \in E :
        /\ t # u /\ E = {t, u}
        /\ Adjacent(t, u) /\ Adjacent(u, t)
        /\ element[t] = element[u] /\ IsCardinal(element[t])

\* the tiles of a move
Range(move) == {move[i] : i \in 1 .. Len(move)}

\* C16: when the only existing tiles are two mutually adjacent tiles of
\* the same cardinal element, both are legal and valid_moves returns
\* exactly one move, made of exactly those two tiles; solve() on such a
\* board returns True with a solution of exactly one move of two tiles.
C16_CardinalPair ==
    /\ CardinalPair({t \in Tiles : exists_[t]}) =>
          /\ \A t \in Tiles : exists_[t] => legal(Board, t).ret
          /\ \A v \in {valid_moves(Board, CARDINALS)} :
                /\ Len(v.moves) = 1
                /\ Len(v.moves[1]) = 2
                /\ Range(v.moves[1]) = {t \in Tiles : exists_[t]}
    /\ (CardinalPair(Populated(element)) /\ pc = "ready" /\ calls # << >>) =>
          /\ LastCall.ret = RetTrue
          /\ Len(solver.solution) = 1
          /\ Len(solver.solution[1]) = 2
          /\ Range(solver.solution[1]) = Populated(element)

\* solve() has returned on a board of two adjacent water tiles
C16_Witness ==
    /\ CardinalPair(Populated(element))
    /\ \E t \in Tiles : element[t] = "water"
    /\ pc = "ready" /\ calls # << >>
    /\ solver.iterations = 1

\* C17: when solve returns False (Lost), solver.solution holds no empty
\* move; and on a board whose first position has no candidate move
\* (valid_moves returns the empty list) solve() returns False with
\* solver.solution equal to the empty list.
C17_LostSolution ==
    /\ SolveLost =>
          \A i \in 1 .. Len(solver.solution) : Len(solver.solution[i]) > 0
    /\ (pc = "ready" /\ calls # << >>
            /\ valid_moves(OriginalBoard, CARDINALS).moves = << >>) =>
          LastCall.ret = RetFalse /\ solver.solution = << >>

\* what a call gave its caller: the exception, or the return value
Outcome(r) == IF r.raised # NoError THEN r.raised ELSE r.ret

\* a new Solver on a fresh copy of the board
FreshSolver == [board |-> OriginalBoard, solver |-> NewSolver]

\* the calls made so far have left what one solve(k) on a new Solver and a
\* fresh board leaves, k the sum of their budgets: the same return value,
\* and the same solver (solution, visited bitmaps, counters, stack) and
\* board (existence, cached legality, catalog)
SameAsOneCall ==
    \E r \in {solve(FreshSolver, CARDINALS, Granted(calls))} :
        /\ Outcome(r) = LastCall.ret
        /\ r.state = SolverState

\* solve(k) makes at most k iterations, and a call that returns gives
\* None exactly when it has neither won nor lost
WithinBudget ==
    /\ calls # << >> => solver.iterations - LastCall.begun <= LastCall.steps
    /\ (pc = "ready" /\ calls # << >> /\ raised = NoError) =>
          /\ LastCall.ret \in {RetNone, RetTrue, RetFalse}
          /\ LastCall.ret = RetNone <=> solver.won = "None"
          /\ LastCall.ret = RetTrue <=> solver.won = "True"

ResumedAfterNone == \A i \in 1 .. Len(calls) - 1 : calls[i].ret = RetNone

C19_ZeroIsWon ==
    (pc = "ready" /\ calls # << >>) =>
        /\ LastCall.ret = RetTrue <=> bitmap(Board) = {}
        /\ Populated(element) = {} =>
              LastCall.ret = RetTrue /\ solver.solution = << >>

\* the bits of the tiles in S
BitsOf(S) == UNION {bit[t] : t \in S}

\* the tiles removed by the moves of the frames below frame i
RemovedBelow(i) == UNION {Range(solver.stack[j].move) : j \in 1 .. i - 1}

\* C20: between the iterations of solve, the bitmap stored in the top
\* frame with the bits of the frame's applied move cleared equals
\* board.bitmap(); and the bitmap stored in every frame is the bitmap the
\* board had when the frame was pushed: that of the tiles read onto the
\* board without the tiles of the moves applied by the frames below it.
C20_FrameBitmaps ==
    Len(solver.stack) > 0 =>
        /\ solver.stack[Len(solver.stack)].bitmap
               \ BitsOf(Range(solver.stack[Len(solver.stack)].move))
             = bitmap(Board)
        /\ \A i \in 1 .. Len(solver.stack) :
               /\ solver.stack[i].bitmap = BitsOf(Populated(element) \ RemovedBelow(i))
               /\ solver.stack[i].bitmap = bitmap(Without(OriginalBoard, RemovedBelow(i)))
        /\ {t \in Tiles : exists_[t]}
             = Populated(element) \ RemovedBelow(Len(solver.stack) + 1)

\* between two iterations, after a backtrack: three frames, the top one
\* with its move applied
C20_Witness ==
    /\ pc = "solve"
    /\ Len(solver.stack) >= 3
    /\ Len(solver.stack[Len(solver.stack)].move) >= 2

\* a is a part of b and not all of it
StrictSubset(a, b) == a \subseteq b /\ a # b

\* one step of a solve, as C21 has it
C21_Step ==
    /\ solver.bitmaps \subseteq solver'.bitmaps
    /\ Len(solver'.stack) > Len(solver.stack) =>
          /\ Len(solver'.stack) = Len(solver.stack) + 1
          /\ solver'.stack[Len(solver'.stack)].bitmap \notin solver.bitmaps
          /\ solver'.stack[Len(solver'.stack)].bitmap \in solver'.bitmaps
          /\ Len(solver.stack) > 0 =>
                StrictSubset(solver'.stack[Len(solver'.stack)].bitmap,
                             solver.stack[Len(solver.stack)].bitmap)
    /\ \A i \in 1 .. Len(solver'.stack) :
          /\ solver'.stack[i].bitmap \in solver'.bitmaps
          /\ \A j \in i + 1 .. Len(solver'.stack) :
                StrictSubset(solver'.stack[j].bitmap, solver'.stack[i].bitmap)

\* C21: during one solve the visited set solver.bitmaps never loses an
\* element, and a frame is pushed only for a bitmap that was not in the
\* set just before the push and is in it after; so the frames hold
\* bitmaps that are all visited and all different, each a strict subset
\* of the bitmap of the frame below it.
C21_VisitedGrows == [][C21_Step]_vars

\* a search four frames deep that has skipped a visited bitmap
C21_Witness ==
    /\ pc = "solve"
    /\ Len(solver.stack) >= 4
    /\ solver.bitmap_hits >= 1

\* the frame on top of the stack
Top == solver.stack[Len(solver.stack)]

\* the bitmap a move of the top frame leads to
LeadsTo(move) == Top.bitmap \ BitsOf(Range(move))

\* how many candidates at the back of the top frame's list lead to a
\* visited bitmap
Discarded ==
    Cardinality({i \in 1 .. Len(Top.moves) :
                    \A j \in i .. Len(Top.moves) : LeadsTo(Top.moves[j]) \in solver.bitmaps})

\* one iteration, as C22 has it: the candidates are taken from the back of
\* the list; those that lead to a visited bitmap are dropped, each
\* counted once; the first that does not is the move of the frame
C22_Step ==
    (pc = "solve" /\ Len(solver.stack) > 0) =>
        /\ solver'.iterations = solver.iterations + 1
        /\ solver'.bitmap_hits = solver.bitmap_hits + Discarded
        /\ Len(solver'.stack) <= Len(solver.stack) + 1
        /\ IF Discarded < Len(Top.moves)
           THEN /\ Len(solver'.stack) >= Len(solver.stack)
                /\ solver'.stack[Len(solver.stack)] =
                      [move |-> Top.moves[Len(Top.moves) - Discarded],
                       moves |-> SubSeq(Top.moves, 1, Len(Top.moves) - Discarded - 1),
                       bitmap |-> Top.bitmap]
                /\ {t \in Tiles : exists_'[t]} =
                      ({t \in Tiles : exists_[t]} \cup Range(Top.move))
                          \ Range(Top.moves[Len(Top.moves) - Discarded])
                /\ Len(solver'.stack) > Len(solver.stack) =>
                      solver'.stack[Len(solver'.stack)].bitmap =
                          LeadsTo(Top.moves[Len(Top.moves) - Discarded])
           ELSE /\ Len(solver'.stack) = Len(solver.stack) - 1
                /\ {t \in Tiles : exists_'[t]} =
                      {t \in Tiles : exists_[t]} \cup Range(Top.move)

\* C22: a candidate move whose bitmap is already in the visited set is
\* discarded without changing any tile's existence, bitmap_hits grows by
\* exactly one for it, no frame is pushed for it, and the same frame goes
\* on to the next candidate from the back of its list within the same
\* iteration.
C22_DiscardVisited == [][C22_Step]_vars

\* the top frame's last candidates lead to visited bitmaps and an earlier
\* one does not, in a search that has discarded candidates before
C22_Witness ==
    /\ pc = "solve"
    /\ Len(solver.stack) >= 2
    /\ solver.bitmap_hits >= 1
    /\ Discarded >= 1
    /\ Discarded < Len(Top.moves)
    /\ \A i \in 1 .. Len(Top.moves) : Len(Top.moves[i]) > 0

\* the moves applied on the board: those of the frames that hold one
AppliedMoves == {i \in 1 .. Len(solver.stack) : Len(solver.stack[i].move) > 0}

\* C23: after every iteration of solve, and so whenever solve returns None
\* (Exhausted) or False (Lost), solver.solution is at least as long as the
\* longest sequence of applied moves the stack has held, hence at least as
\* long as the sequence it holds at that moment, and it is a sequence of
\* moves that was applied consecutively from the original board.
C23_BestEffort ==
    calls # << >> =>
        /\ Len(solver.solution) >= Cardinality(AppliedMoves)
        /\ Replay(OriginalBoard, solver.solution).ok

\* one step, as C24 has it: a step that pops a frame has restored the
\* tiles of the move that frame held and changed no other tile, and a
\* step with which solve returns False leaves every tile's existence and
\* the catalog as read_board left them
C24_Step ==
    /\ Len(solver'.stack) < Len(solver.stack) =>
          /\ Len(solver'.stack) = Len(solver.stack) - 1
          /\ \A t \in Tiles : exists_'[t] <=> (exists_[t] \/ t \in Range(Top.move))
    /\ (calls' # << >> /\ calls'[Len(calls')].ret = RetFalse) =>
          /\ exists_' = OriginalBoard.exists
          /\ catalog' = OriginalBoard.catalog
          /\ \A i \in 0 .. number - 1 : BitSet(bitmap(OriginalBoard), i) <=> exists_'[i]

\* C24: backtracking undoes exactly what was applied: a frame that runs
\* out of moves has its applied move restored before it is popped, and
\* when solve returns False (Lost) every tile's existence, and with it
\* board.bitmap() and the catalog, is what it was before solve was called.
C24_BacktrackRestores == [][C24_Step]_vars

\* Lost after moves were applied and taken back, the board as it was read
C24_Witness ==
    /\ SolveLost
    /\ solver.iterations >= 8
    /\ Len(solver.solution) >= 3
    /\ Board.exists = OriginalBoard.exists

-----------------------------------------------------------------------------
(* The shortcuts of valid_moves, on every board of SpecMoves.              *)

\* the tiles on the board
Existing == {t \in Tiles : ExistsOf(Board, t)}

\* the tiles of element e on the board
Remaining(e) == {t \in Existing : element[t] = e}

\* the tiles on the board that the rule of three free neighbours in a row
\* allows to be taken
LegalNow == {t \in Existing : HasRun(Board, t, {})}

\* C25: when at most one tile of the board is legal, valid_moves returns
\* the one move of that tile alone if the tile is gold and no silver is
\* left, and the empty list in every other case.
C25_SingleLegal ==
    Cardinality(LegalNow) <= 1 =>
        \A v \in {valid_moves(Board, CARDINALS)} :
            IF \E g \in LegalNow : element[g] = "gold" /\ Remaining("silver") = {}
            THEN v.moves = << << Only(LegalNow) >> >>
            ELSE v.moves = << >>

\* valid_moves has been called on a board whose one legal tile is gold
C25_Witness ==
    /\ pc = "moves"
    /\ Cardinality(LegalNow) = 1
    /\ element[Only(LegalNow)] = "gold"
    /\ valid_moves(Board, CARDINALS).moves = << << Only(LegalNow) >> >>

\* the metal tiles on the board, lowest metal first (the boards hold at
\* most one tile of each metal)
RemainingMetals ==
    Only({ [i \in 1 .. Len(present) |-> Only(Remaining(present[i]))] :
           present \in {SelectSeq(METALS, LAMBDA m : Remaining(m) # {})} })

\* the metals that can be taken one after the other: the longest run of
\* legal tiles at the front of RemainingMetals
LegalMetals ==
    Only({ SubSeq(rm, 1, Cardinality({k \in 1 .. Len(rm) :
                                        \A i \in 1 .. k : rm[i] \in LegalNow})) :
           rm \in {RemainingMetals} })

\* valid_moves returns the chain of quicksilver and metals
ChainShortcut ==
    /\ \E t \in Existing : IsMetal(element[t])
    /\ Cardinality(LegalNow) >= 2
    /\ Len(LegalMetals) >= 1
    /\ Remaining("quicksilver") \subseteq LegalNow
    /\ Len(LegalMetals) >= Len(RemainingMetals) - 1
    /\ Cardinality(Remaining("quicksilver")) >= Len(RemainingMetals) - 1

\* the metal tiles of a move, in the order the move holds them
MetalsIn(move) == SelectSeq(move, LAMBDA t : IsMetal(element[t]))

\* the lesser of two numbers
Lesser(a, b) == IF a <= b THEN a ELSE b

VitaeMorsShortcut ==
    /\ Remaining("vitae") # {}
    /\ Remaining("mors") # {}
    /\ Remaining("vitae") \cup Remaining("mors") \subseteq LegalNow
    /\ Cardinality(LegalNow) >= 2
    /\ ~ChainShortcut

RemainingCardinals == {t \in Existing : IsCardinal(element[t])}

\* valid_moves comes to the salt of the board with all of it legal and no
\* cardinal element left: no shortcut before it has returned
SaltShortcut ==
    /\ Remaining("salt") # {}
    /\ RemainingCardinals = {}
    /\ Remaining("salt") \subseteq LegalNow
    /\ Cardinality(LegalNow) >= 2
    /\ ~ChainShortcut
    /\ ~VitaeMorsShortcut

\* C28: when salt remains, all of it legal, no cardinal element remains and
\* no shortcut of higher priority applies, valid_moves returns one move and
\* its tiles are exactly the salt tiles on the board.
C28_AllSalt ==
    SaltShortcut =>
        \A v \in {valid_moves(Board, CARDINALS)} :
            /\ Len(v.moves) = 1
            /\ Range(v.moves[1]) = Remaining("salt")

\* the four cardinal elements
CardinalElements == {Cardinals[i] : i \in 1 .. Len(Cardinals)}

\* all salt on the board is legal and no tile next to a salt tile is on the
\* board without being legal
SaltFree ==
    /\ Remaining("salt") \subseteq LegalNow
    /\ \A s \in Remaining("salt") : \A i \in 1 .. 6 :
           neighbors[s][i] \in Existing => neighbors[s][i] \in LegalNow

\* the cardinal elements on the board with every tile legal
AllLegalCardinals ==
    {e \in CardinalElements : Remaining(e) # {} /\ Remaining(e) \subseteq LegalNow}

\* those of them that can leave whole: an even number of tiles, or an odd
\* number and a salt tile to go with the odd one
WholeCardinals ==
    {e \in AllLegalCardinals :
        Cardinality(Remaining(e)) % 2 = 0 \/ Remaining("salt") # {}}

\* valid_moves comes to the cardinal elements with salt free and no
\* quintessence on the board: no shortcut before them has returned
CardinalShortcut ==
    /\ Remaining("quintessence") = {}
    /\ Cardinality(LegalNow) >= 2
    /\ SaltFree
    /\ ~ChainShortcut
    /\ ~VitaeMorsShortcut

\* the move holds every tile of element e, one salt tile if e has an odd
\* number of tiles and none if not, and no other tile
TakesWhole(move, e) ==
    /\ NoRepeat(move)
    /\ Remaining(e) \subseteq Range(move)
    /\ Range(move) \ Remaining(e) \subseteq Remaining("salt")
    /\ Cardinality(Range(move) \ Remaining(e)) = Cardinality(Remaining(e)) % 2

\* C29 as stated: when every tile of some cardinal element is legal, salt
\* is free, no quintessence remains and no shortcut of higher priority
\* applies, valid_moves returns one move: all tiles of one such element,
\* with one salt tile exactly if their number is odd, and no other tile.
C29_CardinalAlways ==
    (AllLegalCardinals # {} /\ CardinalShortcut) =>
        \A v \in {valid_moves(Board, CARDINALS)} :
            /\ Len(v.moves) = 1
            /\ \E e \in AllLegalCardinals : TakesWhole(v.moves[1], e)

\* C29: when every tile of some cardinal element is legal, that element
\* has an even number of tiles or a salt tile remains, salt is free, no
\* quintessence remains and no shortcut of higher priority applies,
\* valid_moves returns one move: all tiles of one such element, with one
\* salt tile exactly if their number is odd, and no other tile.
C29_Cardinal ==
    (WholeCardinals # {} /\ CardinalShortcut) =>
        \A v \in {valid_moves(Board, CARDINALS)} :
            /\ Len(v.moves) = 1
            /\ \E e \in WholeCardinals : TakesWhole(v.moves[1], e)

\* valid_moves has been called, and the one tile of a cardinal element
\* goes with one of the salt tiles while another salt tile stays
C29_Witness ==
    /\ pc = "moves"
    /\ CardinalShortcut
    /\ WholeCardinals # {}
    /\ Cardinality(Remaining("salt")) >= 2
    /\ Len(valid_moves(Board, CARDINALS).moves) = 1
    /\ Len(valid_moves(Board, CARDINALS).moves[1]) = 2
    /\ \E t \in Range(valid_moves(Board, CARDINALS).moves[1]) : element[t] = "salt"

\* valid_moves returns the list of ordinary candidates: no shortcut has
\* returned a move of its own
OrdinaryList ==
    /\ Cardinality(LegalNow) >= 2
    /\ ~ChainShortcut
    /\ ~VitaeMorsShortcut
    /\ ~(Remaining("salt") = {} /\ RemainingCardinals = {})
    /\ ~(CardinalShortcut /\ WholeCardinals # {})

\* the cardinal elements with an odd number of tiles among the tiles of E
OddCardinals(E) ==
    {e \in CardinalElements : Cardinality({t \in E : element[t] = e}) % 2 = 1}

\* the pairs of a salt tile s and a cardinal tile t that valid_moves offers
SaltCardinalPairs ==
    UNION { { <<moves[i][a], moves[i][3 - a]>> :
                a \in {a \in 1 .. 2 : /\ Len(moves[i]) = 2
                                      /\ element[moves[i][a]] = "salt"
                                      /\ IsCardinal(element[moves[i][3 - a]])} } :
            <<i, moves>> \in UNION { (1 .. Len(v.moves)) \X {v.moves} :
                                      v \in {valid_moves(Board, CARDINALS)} } }

SaltPairOffered ==
    \E v \in {valid_moves(Board, CARDINALS)} : \E i \in 1 .. Len(v.moves) :
        /\ Len(v.moves[i]) = 2
        /\ element[v.moves[i][1]] = "salt"
        /\ element[v.moves[i][2]] = "salt"

\* C31: valid_moves offers a pair of two salt tiles only when the legal salt
\* tiles are at least two more than the cardinal elements with an odd
\* number of tiles, with quintessence on the board and without.
C31_SaltPairsSpare ==
    SaltPairOffered =>
        Cardinality(Remaining("salt") \cap LegalNow)
            - Cardinality(OddCardinals(Existing)) >= 2

\* the place of metal e in Board.METALS
MetalRank(e) == CHOOSE i \in 1 .. Len(METALS) : METALS[i] = e

\* the tiles of metals below the metal of tile m that are on the board
LowerMetals(m) ==
    {u \in Existing : /\ IsMetal(element[u])
                      /\ MetalRank(element[u]) < MetalRank(element[m])}

\* a move of a quicksilver tile and a metal tile, by the place of the metal
QuicksilverPair(move, a) ==
    /\ Len(move) = 2
    /\ element[move[3 - a]] = "quicksilver"
    /\ IsMetal(element[move[a]])

C33_QuintMoves ==
    \A v \in {valid_moves(Board, CARDINALS)} : \A i \in 1 .. Len(v.moves) :
        \A move \in {v.moves[i]} :
            (\E t \in Range(move) : element[t] = "quintessence") =>
                /\ Len(move) = 5
                /\ Range(move) \subseteq LegalNow
                /\ Cardinality({t \in Range(move) : element[t] = "quintessence"}) = 1
                /\ \A e \in CardinalElements :
                       Cardinality({t \in Range(move) : element[t] = e}) = 1

\* valid_moves has been called and offers a move with quintessence while a
\* second quintessence tile, not legal, stays out of the moves
C33_Witness ==
    /\ pc = "moves"
    /\ Remaining("quintessence") \ LegalNow # {}
    /\ \E v \in {valid_moves(Board, CARDINALS)} : \E i \in 1 .. Len(v.moves) :
           \E t \in Range(v.moves[i]) : element[t] = "quintessence"

\* the five conditions under which valid_moves is to return one move of its
\* own, as they are worded: the lone gold, the chain of quicksilver and
\* metals, all vitae and mors legal, all salt legal with no cardinal left,
\* and a cardinal element all legal with salt free and no quintessence
NoShortcutCondition ==
    /\ ~(/\ Cardinality(LegalNow) = 1
         /\ \E g \in LegalNow : element[g] = "gold"
         /\ Remaining("silver") = {})
    /\ ~(/\ Remaining("quicksilver") \cup Range(RemainingMetals) # {}
         /\ Remaining("quicksilver") \subseteq LegalNow
         /\ Len(LegalMetals) >= Len(RemainingMetals) - 1)
    /\ ~ChainShortcut
    /\ ~(/\ Remaining("vitae") \cup Remaining("mors") # {}
         /\ Remaining("vitae") \cup Remaining("mors") \subseteq LegalNow)
    /\ ~(/\ Remaining("salt") # {}
         /\ Remaining("salt") \subseteq LegalNow
         /\ RemainingCardinals = {})
    /\ ~(/\ AllLegalCardinals # {}
         /\ SaltFree
         /\ Remaining("quintessence") = {})

\* the pairs the list of ordinary candidates is to hold at least: legal
\* vitae with legal mors, two legal tiles of one cardinal element, and legal
\* quicksilver with the lowest metal on the board if that is legal
OrdinaryPairs ==
    {{a, b} : <<a, b>> \in
        {p \in LegalNow \X LegalNow :
            \/ element[p[1]] = "vitae" /\ element[p[2]] = "mors"
            \/ /\ p[1] # p[2]
               /\ IsCardinal(element[p[1]])
               /\ element[p[1]] = element[p[2]]
            \/ /\ element[p[1]] = "quicksilver"
               /\ RemainingMetals # << >>
               /\ p[2] = RemainingMetals[1]}}

\* the pairs among the moves valid_moves returns
OfferedPairs ==
    UNION { {Range(v.moves[i]) : i \in {i \in 1 .. Len(v.moves) : Len(v.moves[i]) = 2}} :
            v \in {valid_moves(Board, CARDINALS)} }

\* C34: when none of the five shortcut conditions holds, the list
\* valid_moves returns holds every pair of a legal vitae with a legal mors,
\* every pair of two legal tiles of one cardinal element, and every pair of
\* a legal quicksilver with the lowest remaining metal when that is legal.
C34_OrdinaryComplete ==
    NoShortcutCondition => OrdinaryPairs \subseteq OfferedPairs

\* the same on the boards that hold a salt or a cardinal tile
C34_WithSaltOrCardinal ==
    (NoShortcutCondition /\ Remaining("salt") \cup RemainingCardinals # {})
        => OrdinaryPairs \subseteq OfferedPairs

-----------------------------------------------------------------------------
(* What set_exists and predict_legality leave alone.                       *)

\* the tiles in the six neighbor slots of t
StructuralNeighbors(t) == {neighbors[t][i] : i \in 1 .. 6} \ {Dummy}

\* the step is tile.exists = value on tile t
IsSetExists(t, value) ==
    /\ pc = "ready"
    /\ BoardNext = _setexists(Board, t, value).board
    /\ raised' = _setexists(Board, t, value).raised

\* C35: set_exists on tile T changes the cached legality only of tiles in
\* the neighbor slots of T: the cached legality of every other tile, every
\* tile's element and the existence of every tile other than T stay as
\* they were.
C35_Step ==
    \A t \in played, value \in BOOLEAN :
        IsSetExists(t, value) =>
            /\ \A u \in Tiles \ StructuralNeighbors(t) : _legal'[u] = _legal[u]
            /\ element' = element
            /\ \A u \in Tiles \ {t} : exists_'[u] = exists_[u]

C35_SetExistsFrame == [][C35_Step]_vars

\* the left neighbor of the middle tile was taken off the board with its
\* element kept, the middle tile next to it has no cached legality, and the
\* right neighbor, not adjacent to the left one, has its legality cached
C35_Witness ==
    /\ pc = "ready"
    /\ \E t \in played :
        /\ element[t] # NoElement /\ ~exists_[t]
        /\ \E n \in played \cap StructuralNeighbors(t) : _legal[n] = LegalNone
        /\ \E u \in played \ (StructuralNeighbors(t) \cup {t}) : _legal[u] = LegalTrue

\* the board after tile.predict_legality(removed) on tile t: the call
\* assigns nothing but the tile's _legal
AfterPredict(b, t, removed) ==
    [b EXCEPT !.legal[t] = predict_legality(b, t, removed).legal]

\* C36: predict_legality(t, R) leaves every tile's existence and element,
\* the catalog and the bitmap unchanged and does not change the value
\* legal(u) returns for any tile u; a tile predicted legal only because of
\* R is still reported as not legal by the legal() that follows.
C36_PredictKeepsLegal ==
    pc = "ready" =>
        \A t \in played, R \in SUBSET played :
            \A after \in {AfterPredict(Board, t, R)} :
                /\ after.exists = exists_
                /\ after.element = element
                /\ after.catalog = catalog
                /\ bitmap(after) = bitmap(Board)
                /\ \A u \in Tiles : legal(after, u).ret = legal(Board, u).ret

-----------------------------------------------------------------------------
(* set_element on every tile and value.                                    *)

\* C37: in every reachable state, set_element(tile, e) completes without
\* error for every played tile and every element value or none, also when
\* the tile's previous element has no catalog entry, and afterwards the
\* tile's element is e.
C37_SetElementCompletes ==
    pc = "ready" =>
        \A t \in played, e \in Elements \cup {NoElement} :
            \A r \in {_setelement(Board, t, e)} :
                /\ r.raised = NoError
                /\ r.board.element[t] = e

-----------------------------------------------------------------------------
(* Board.__init__ and the radius.                                          *)

\* C38: a board with a radius of zero or below is rejected at construction,
\* so Board.__init__ returns only for a radius of 1 or more; and for such a
\* radius R every tile has exactly 6 neighbor slots and the board has
\* 3R(R-1)+1 tiles.
C38_RadiusChecked ==
    pc = "ready" =>
        /\ radius >= 1
        /\ number = 3 * radius * (radius - 1) + 1
        /\ DOMAIN neighbors = 0 .. number - 1
        /\ \A t \in DOMAIN neighbors : Len(neighbors[t]) = 6

\* the second half alone: the tiles and neighbor slots of a board whose
\* radius is 1 or more
C38_ValidRadius ==
    (pc = "ready" /\ radius >= 1) =>
        /\ number = 3 * radius * (radius - 1) + 1
        /\ DOMAIN neighbors = 0 .. number - 1
        /\ \A t \in DOMAIN neighbors : Len(neighbors[t]) = 6

-----------------------------------------------------------------------------
(* solve called again after it has won or lost.                            *)

\* the last call returned True (Won) or False (Lost)
SolveTerminal == SolveWon \/ SolveLost

\* C39: terminal states are stable: after solve has returned True (Won) or
\* False (Lost), a further call of solve on the same Solver, with a budget
\* or without, raises nothing, returns the same value and leaves the
\* existence of every tile and solver.solution as they were; and no call
\* made so far after a call that returned True or False ended otherwise.
C39_TerminalStable ==
    /\ SolveTerminal =>
          \A k \in {StepsNone} \cup (1 .. MaxSteps) :
              \A r \in {solve(SolverState, CARDINALS, k)} :
                  /\ r.raised = NoError
                  /\ r.ret = LastCall.ret
                  /\ r.state.board.exists = exists_
                  /\ r.state.solver.solution = solver.solution
    /\ \A i \in 1 .. Len(calls) - 1 :
          calls[i].ret \in {RetTrue, RetFalse} =>
              calls[i + 1].ret \in {Running, calls[i].ret}

-----------------------------------------------------------------------------
(* Tile.affected_tiles.                                                    *)

\* the tiles with an element outside S that are not legal now and are legal
\* on the board without the tiles of S
BecomeLegal(S) ==
    {u \in Tiles \ S :
        /\ element[u] # NoElement
        /\ ~legal(Board, u).ret
        /\ legal(Without(Board, S), u).ret}

\* C40: Tile.affected_tiles(S) returns exactly the tiles with an element
\* outside S that are not legal now but would be legal with every tile of
\* S removed; the result never holds a member of S, also when tiles of S
\* are adjacent to each other.
C40_AffectedTiles ==
    pc = "ready" =>
        \A S \in SUBSET played :
            \A affected \in {affected_tiles(Board, S)} :
                /\ affected = BecomeLegal(S)
                /\ affected \cap S = {}

\* the same for the part of the result outside S
C40_OutsideS ==
    pc = "ready" =>
        \A S \in SUBSET played : affected_tiles(Board, S) \ S = BecomeLegal(S)

=============================================================================
